---------------------------- MODULE Spec2Model ----------------------------
(***************************************************************************)
(* A model of the PageSpeed bulk tester: the bulk test orchestrator        *)
(* (services/pagespeedService.js), the CSV and PDF report builders         *)
(* (services/exportService.js and its second copy, unnamed/part_003), the  *)
(* client-side PDF export (page.js) and the score classifiers.             *)
(*                                                                         *)
(* A JavaScript value that is undefined (a property the object lacks) is   *)
(* the model value Absent.  Lengths on a page are integers in thousandths  *)
(* of a point, so that 841.89pt and the font metrics are exact.            *)
(***************************************************************************)
EXTENDS Integers, Sequences, FiniteSets, TLC

VARIABLES
    \* ---- the bulk test orchestrator (pagespeedService.js)
    urls,        \* the urls argument of runPageSpeedTests
    strategy,    \* the strategy argument
    tasks,       \* per url: the runPageSpeedTest call and its promise
    pall,        \* the promise Promise.all(promises) and its bookkeeping
    batch,       \* runPageSpeedTests itself: where it is and what it gave
    outOfOrder,  \* history: some task settled before a task of lower index
    \* ---- the consumers of the records
    results,     \* the results array given to a report builder
    cls,         \* a score and the colour each classifier gives it
    csv,         \* generateCSVReport: what each copy of it produced
    cpdf,        \* handleExportPDF (page.js): the jsPDF document being laid out
    spdf,        \* generatePDFReport (exportService.js): the PDFKit document
    pdf3,        \* generatePDFReport (unnamed/part_003): the PDFKit document
    stream,      \* the events of the PDFKit document and what they delivered
    \* ---- the export endpoint and the page
    route,       \* POST /api/export/[format] (unnamed/part_000)
    form,        \* handleSubmit (page.js): the input and what it led to
    card,        \* ResultCard: the metrics extracted from a record
    view         \* what a consumer applied to the records gave

batchVars == <<urls, strategy, tasks, pall, batch, outOfOrder>>

laterVars == <<stream, route, form, card, view>>

exportVars == <<results, cls, csv, cpdf, spdf, pdf3, laterVars>>

vars == <<urls, strategy, tasks, pall, batch, outOfOrder,
          results, cls, csv, cpdf, spdf, pdf3,
          stream, route, form, card, view>>

\* a component that takes no part in the specification at hand
Off == [pc |-> "off"]

LaterOff ==
    /\ stream = Off
    /\ route = Off
    /\ form = Off
    /\ card = Off
    /\ view = Off

BatchOff ==
    /\ urls = <<>>
    /\ strategy = "mobile"
    /\ tasks = <<>>
    /\ pall = Off
    /\ batch = Off
    /\ outOfOrder = FALSE

Absent == "undefined"

(***************************************************************************)
(* Bounds of the model.                                                    *)
(***************************************************************************)
MaxUrls == 3

(***************************************************************************)
(* Strings are sequences of tokens: a url is its scheme token, if it has   *)
(* one, followed by the rest.                                              *)
(***************************************************************************)
UrlPool == { <<"a.com">>, <<"http://", "b.org">> }

Strategies == {"mobile", "desktop"}

RECURSIVE SeqsUpTo(_, _)
SeqsUpTo(S, n) ==
    IF n = 0 THEN { <<>> }
    ELSE LET shorter == SeqsUpTo(S, n - 1)
         IN  shorter \cup { Append(s, x) : s \in shorter, x \in S }

\* /^https?:\/\//.test(u)
HasHttpScheme(u) == Len(u) > 0 /\ u[1] \in {"http://", "https://"}

\* pagespeedService.js 30-34
ProcessedUrl(u) == IF HasHttpScheme(u) THEN u ELSE <<"https://">> \o u

(***************************************************************************)
(* What the external API can answer to one request.                        *)
(*   fetch rejects                      [kind |-> "reject", message]       *)
(*   a response, ok or not              [kind |-> "response", ok]          *)
(* The body of a response is read afterwards (text() or json()).           *)
(***************************************************************************)
FetchMessages == {"Failed to fetch"}

FetchOutcomes ==
    [kind : {"reject"}, ok : {FALSE}, message : FetchMessages]
    \cup [kind : {"response"}, ok : BOOLEAN, message : {Absent}]

(***************************************************************************)
(* The body of a non-2xx response: its text, and what JSON.parse makes of  *)
(* it: "invalid" (JSON.parse throws), "null", or an object, of which only  *)
(* error.message matters (Absent when error or error.message is missing).  *)
(***************************************************************************)
ErrorBodies ==
    { [text |-> "{error:{message:Quota exceeded}}", json |-> "object",
       message |-> "Quota exceeded"],
      [text |-> "{}", json |-> "object", message |-> Absent],
      [text |-> "Service Unavailable", json |-> "invalid", message |-> Absent],
      [text |-> "", json |-> "invalid", message |-> Absent] }

\* no body has been read
NoBody == [text |-> Absent, json |-> "none", message |-> Absent]

\* a string, or undefined, that JavaScript takes for false
Falsy(v) == v = Absent \/ v = ""

\* pagespeedService.js 53-62: the message of the Error thrown for a non-2xx
\* response.  JSON.parse("null").error throws inside the try, as a parse does.
ErrorMessageOf(body) ==
    LET default == "API request failed" IN
    IF body.json = "object"
    THEN IF Falsy(body.message) THEN default ELSE body.message
    ELSE IF Falsy(body.text) THEN default ELSE body.text

\* The parsed bodies of a 2xx response, and the message of the SyntaxError
\* response.json() rejects with when the body is no JSON.
DataBodies == {"lighthouse"}
JsonSyntaxMessage == "Unexpected token < in JSON"

(***************************************************************************)
(* A settled promise of runPageSpeedTest.                                  *)
(***************************************************************************)
NoRecord == [url |-> <<>>, data |-> Absent, error |-> Absent, strategy |-> Absent]

Fulfilled(v) == [state |-> "fulfilled", value |-> v, reason |-> Absent]
Rejected(m)  == [state |-> "rejected", value |-> NoRecord, reason |-> m]
Pending      == [state |-> "pending", value |-> NoRecord, reason |-> Absent]

\* pagespeedService.js 67-68
ReturnData(processedUrl, data, strat) ==
    Fulfilled([url |-> processedUrl, data |-> data, error |-> Absent,
               strategy |-> strat])

\* a catch block that lets the error escape
CatchRethrows(url, message, strat) == Rejected(message)

\* pagespeedService.js 69-72: the catch block of runPageSpeedTest
CatchBlock(url, message, strat) ==
    Fulfilled([url |-> url, data |-> Absent, error |-> message,
               strategy |-> strat])

N == Len(urls)

\* Promise.all collecting each value as it arrives
ReactPush(p, i, settled) ==
    IF p.status # "pending" THEN p
    ELSE IF settled.state = "rejected"
         THEN [p EXCEPT !.status = "rejected", !.reason = settled.reason]
         ELSE LET k == p.count + 1 IN
              [p EXCEPT !.values = [p.values EXCEPT ![k] = settled.value],
                        !.count = k,
                        !.status = IF k = N THEN "fulfilled" ELSE "pending"]

\* Promise.race in the place of Promise.all: the first promise to settle
\* settles the whole
ReactRace(p, i, settled) ==
    IF p.status # "pending" THEN p
    ELSE IF settled.state = "rejected"
         THEN [p EXCEPT !.status = "rejected", !.reason = settled.reason]
         ELSE [p EXCEPT !.values = [p.values EXCEPT ![i] = settled.value],
                        !.count = p.count + 1,
                        !.status = "fulfilled"]

\* Promise.all(promises), pagespeedService.js 12: the reaction to promise i
\* settling.  The first rejection rejects the whole; a value is stored at the
\* index of its promise, and the last one fulfils the whole.
PromiseAllReact(p, i, settled) ==
    IF p.status # "pending" THEN p
    ELSE IF settled.state = "rejected"
         THEN [p EXCEPT !.status = "rejected", !.reason = settled.reason]
         ELSE LET k == p.count + 1 IN
              [p EXCEPT !.values = [p.values EXCEPT ![i] = settled.value],
                        !.count = k,
                        !.status = IF k = N THEN "fulfilled" ELSE "pending"]

InitBatch ==
    /\ urls \in (SeqsUpTo(UrlPool, MaxUrls) \ { <<>> })
    /\ strategy \in Strategies
    /\ tasks = [i \in 1..Len(urls) |->
                  [pc |-> "idle", processedUrl |-> <<>>, outcome |-> "pending",
                   promise |-> Pending, body |-> NoBody]]
    /\ pall = [status |-> "none", values |-> [i \in 1..Len(urls) |-> NoRecord],
               count |-> 0, reason |-> Absent]
    /\ batch = [pc |-> "map", issued |-> 0, result |-> <<>>, thrown |-> Absent]
    /\ outOfOrder = FALSE
    /\ results = <<>>
    /\ cls = Off /\ csv = Off /\ cpdf = Off /\ spdf = Off /\ pdf3 = Off
    /\ LaterOff

\* Task i settles; outcome records what the external API did to it.
Settle(i, outcome, settled) ==
    /\ tasks' = [tasks EXCEPT ![i].pc = "done", ![i].outcome = outcome,
                              ![i].promise = settled]
    /\ pall' = PromiseAllReact(pall, i, settled)
    /\ outOfOrder' = (outOfOrder
                      \/ \E j \in 1..(i - 1) : tasks[j].promise.state = "pending")

\* a loop that awaits each call before it makes the next
AwaitsEachCall(i) == "await"

\* pagespeedService.js 11-12: urls.map makes every call before the await of
\* Promise.all(promises) is reached
AfterCall(i) == IF i = N THEN "await" ELSE "map"

\* pagespeedService.js 11 and 28-50: urls.map calls runPageSpeedTest for the
\* next url, which runs to its first await, the fetch; after the last call
\* Promise.all is given the promises (12).
IssueRequest ==
    /\ batch.pc = "map"
    /\ LET i == batch.issued + 1 IN
       /\ tasks' = [tasks EXCEPT ![i].pc = "fetch",
                                 ![i].processedUrl = ProcessedUrl(urls[i])]
       /\ batch' = [batch EXCEPT !.issued = i, !.pc = AfterCall(i)]
       /\ pall' = IF i = N THEN [pall EXCEPT !.status = "pending"] ELSE pall
    /\ UNCHANGED <<urls, strategy, outOfOrder>>
    /\ UNCHANGED exportVars

\* pagespeedService.js 50-52: the fetch of task i settles
FetchSettles(i) ==
    /\ batch.pc = "await"
    /\ tasks[i].pc = "fetch"
    /\ \E o \in FetchOutcomes :
         IF o.kind = "reject"
         THEN Settle(i, "fetch-rejected",
                     CatchBlock(urls[i], o.message, strategy))
         ELSE /\ tasks' = [tasks EXCEPT ![i].pc = IF o.ok THEN "json" ELSE "text"]
              /\ UNCHANGED <<pall, outOfOrder>>
    /\ UNCHANGED <<urls, strategy, batch>>
    /\ UNCHANGED exportVars

\* pagespeedService.js 53-65: the body text of a non-2xx response arrives
TextSettles(i) ==
    /\ tasks[i].pc = "text"
    /\ \E body \in ErrorBodies :
         LET settled == CatchBlock(urls[i], ErrorMessageOf(body), strategy) IN
         /\ tasks' = [tasks EXCEPT ![i].pc = "done", ![i].outcome = "non-2xx",
                                   ![i].promise = settled, ![i].body = body]
         /\ pall' = PromiseAllReact(pall, i, settled)
         /\ outOfOrder' =
               (outOfOrder
                \/ \E j \in 1..(i - 1) : tasks[j].promise.state = "pending")
    /\ UNCHANGED <<urls, strategy, batch>>
    /\ UNCHANGED exportVars

\* pagespeedService.js 67-68: the body of a 2xx response is parsed
JsonSettles(i) ==
    /\ tasks[i].pc = "json"
    /\ \E parsed \in DataBodies \cup {"invalid"} :
         IF parsed = "invalid"
         THEN Settle(i, "unparseable",
                     CatchBlock(urls[i], JsonSyntaxMessage, strategy))
         ELSE Settle(i, "ok",
                     ReturnData(tasks[i].processedUrl, parsed, strategy))
    /\ UNCHANGED <<urls, strategy, batch>>
    /\ UNCHANGED exportVars

\* pagespeedService.js 12-17: the await of Promise.all resumes
BatchResumes ==
    /\ batch.pc = "await"
    /\ pall.status \in {"fulfilled", "rejected"}
    /\ batch' = IF pall.status = "fulfilled"
                THEN [batch EXCEPT !.pc = "returned", !.result = pall.values]
                ELSE [batch EXCEPT !.pc = "threw", !.thrown = pall.reason]
    /\ UNCHANGED <<urls, strategy, tasks, pall, outOfOrder>>
    /\ UNCHANGED exportVars

NextBatch ==
    \/ IssueRequest
    \/ \E i \in 1..N : FetchSettles(i)
    \/ \E i \in 1..N : TextSettles(i)
    \/ \E i \in 1..N : JsonSettles(i)
    \/ BatchResumes

\* The event loop runs a continuation that is ready.
SpecBatch == InitBatch /\ [][NextBatch]_vars /\ WF_vars(BatchResumes)

(***************************************************************************)
(* Claims about the orchestrator.                                          *)
(***************************************************************************)
Failures == {"fetch-rejected", "non-2xx", "unparseable"}

AllSettled == \A i \in 1..N : tasks[i].promise.state # "pending"

\* C1: whatever the order in which the requests complete, runPageSpeedTests
\* returns exactly one record per url, and record i is the record of the
\* i-th call, for the i-th url.
C1_OrderPreserved ==
    batch.pc = "returned" =>
        /\ DOMAIN batch.result = 1..N
        /\ \A i \in 1..N :
              /\ batch.result[i] = tasks[i].promise.value
              /\ ProcessedUrl(batch.result[i].url) = ProcessedUrl(urls[i])

\* a batch of distinct urls has returned after its requests completed out of
\* submission order
C1_Witness ==
    /\ batch.pc = "returned"
    /\ outOfOrder
    /\ N >= 2
    /\ urls[1] # urls[2]

\* C2: a failing request (fetch rejected, non-2xx answer, unparseable body)
\* gives its url a record with error set and no data, the batch never
\* rejects, and the record of every request that succeeded is the one its own
\* url and answer determine, whatever happened to the others.
C2_FailureIsolated ==
    /\ batch.pc # "threw"
    /\ pall.status # "rejected"
    /\ batch.pc = "returned" =>
         \A i \in 1..N :
            IF tasks[i].outcome \in Failures
            THEN /\ ~Falsy(batch.result[i].error)
                 /\ batch.result[i].data = Absent
            ELSE batch.result[i] =
                    [url |-> ProcessedUrl(urls[i]), data |-> "lighthouse",
                     error |-> Absent, strategy |-> strategy]

\* a batch has returned in which one request failed and another succeeded
C2_Witness ==
    /\ batch.pc = "returned"
    /\ \E i, j \in 1..N :
          /\ tasks[i].outcome \in Failures
          /\ tasks[j].outcome = "ok"
          /\ batch.result[j].data = "lighthouse"

\* C3: runPageSpeedTests does not return (or throw) while a request of the
\* batch is pending, and once all have settled it eventually returns.
C3_SettleAll ==
    /\ [](batch.pc \in {"returned", "threw"} => AllSettled)
    /\ (AllSettled ~> batch.pc = "returned")

\* a batch has returned in which a request failed before an earlier request
\* had settled
C3_Witness ==
    /\ batch.pc = "returned"
    /\ outOfOrder
    /\ \E i \in 2..N :
          /\ tasks[i].outcome \in Failures
          /\ tasks[1].outcome = "ok"

(***************************************************************************)
(* The score classifiers.  Each returns the colour its call site paints    *)
(* with; Band reads the colour back as the band it stands for.             *)
(***************************************************************************)
MaxScore == 100

\* getColorForScore with a strict comparison at the upper threshold
getColorForScoreStrict(score) ==
    IF score > 90 THEN "#059669"
    ELSE IF score >= 50 THEN "#d97706"
    ELSE "#dc2626"

\* exportService.js 497-501
getColorForScore(score) ==
    IF score >= 90 THEN "#059669"
    ELSE IF score >= 50 THEN "#d97706"
    ELSE "#dc2626"

\* page.js 102-106 (inside handleExportPDF)
page_getScoreColor(score) ==
    IF score >= 90 THEN <<16, 185, 129>>
    ELSE IF score >= 50 THEN <<245, 158, 11>>
    ELSE <<239, 68, 68>>

\* ResultCard.jsx 74-78
card_getScoreColor(score) ==
    IF score >= 90 THEN "text-emerald-600"
    ELSE IF score >= 50 THEN "text-amber-500"
    ELSE "text-rose-500"

\* ResultCard.jsx 80-84
card_getScoreBg(score) ==
    IF score >= 90 THEN "bg-emerald-50"
    ELSE IF score >= 50 THEN "bg-amber-50"
    ELSE "bg-rose-50"

\* the band a colour stands for: green and emerald are good, orange and
\* amber need improvement, red and rose are poor
Band(colour) ==
    IF colour \in {"#059669", "text-emerald-600", "bg-emerald-50"} THEN "good"
    ELSE IF colour \in {"#d97706", "text-amber-500", "bg-amber-50"}
         THEN "needs-improvement"
    ELSE "poor"

BandRGB(rgb) ==
    IF rgb = <<16, 185, 129>> THEN "good"
    ELSE IF rgb = <<245, 158, 11>> THEN "needs-improvement"
    ELSE "poor"

InitClassify ==
    /\ BatchOff
    /\ results = <<>>
    /\ cls \in [pc : {"classify"}, score : 0..MaxScore,
                server : {Absent}, client : {<<>>}, card : {Absent},
                cardBg : {Absent}]
    /\ csv = Off /\ cpdf = Off /\ spdf = Off /\ pdf3 = Off
    /\ LaterOff

notClsVars == <<urls, strategy, tasks, pall, batch, outOfOrder,
                results, csv, cpdf, spdf, pdf3, laterVars>>

\* exportService.js 189, 315: the server PDF colours a score box
ClassifyServerPdf ==
    /\ cls.pc = "classify"
    /\ cls.server = Absent
    /\ cls' = [cls EXCEPT !.server = getColorForScore(cls.score)]
    /\ UNCHANGED notClsVars

\* page.js 219: the client PDF colours a score
ClassifyClientPdf ==
    /\ cls.pc = "classify"
    /\ cls.client = <<>>
    /\ cls' = [cls EXCEPT !.client = page_getScoreColor(cls.score)]
    /\ UNCHANGED notClsVars

\* ResultCard.jsx 104: the result card colours a score
ClassifyCard ==
    /\ cls.pc = "classify"
    /\ cls.card = Absent
    /\ cls' = [cls EXCEPT !.card = card_getScoreColor(cls.score),
                          !.cardBg = card_getScoreBg(cls.score)]
    /\ UNCHANGED notClsVars

NextClassify == ClassifyServerPdf \/ ClassifyClientPdf \/ ClassifyCard

SpecClassify == InitClassify /\ [][NextClassify]_vars

\* the band the specification gives a score on the 0..100 scale
SpecBand(s) ==
    IF s >= 90 THEN "good"
    ELSE IF s >= 50 THEN "needs-improvement"
    ELSE "poor"

\* C7: every classifier gives a score s of 0..100 the band good when
\* s >= 90, needs-improvement when 50 <= s < 90 and poor when s < 50, at the
\* server PDF, the client PDF and the result card alike.
C7_SameThresholds ==
    /\ cls.server # Absent => Band(cls.server) = SpecBand(cls.score)
    /\ cls.client # <<>> => BandRGB(cls.client) = SpecBand(cls.score)
    /\ cls.card # Absent =>
          /\ Band(cls.card) = SpecBand(cls.score)
          /\ Band(cls.cardBg) = SpecBand(cls.score)

\* the score 90, on the boundary, has been classified good at every call site
C7_Witness ==
    /\ cls.pc = "classify"
    /\ cls.score = 90
    /\ Band(cls.server) = "good"
    /\ BandRGB(cls.client) = "good"
    /\ Band(cls.card) = "good"
    /\ Band(cls.cardBg) = "good"

(***************************************************************************)
(* Analysis result records, as the report builders read them.              *)
(*                                                                         *)
(*   url, strategy, error   strings (error Absent on a success record)     *)
(*   hasData                result.data is there                           *)
(*   hasLhr                 result.data.lighthouseResult is there          *)
(*   hasCategories          lighthouseResult.categories is there           *)
(*   categories             per category, its score as a fraction in       *)
(*                          thousandths (0..1000), or CategoryAbsent when  *)
(*                          the category is missing, or ScoreAbsent when   *)
(*                          the category has no score                      *)
(*   hasAudits, audits      per audit id its displayValue, or Absent       *)
(*   timestamp              data.analysisUTCTimestamp, or Absent           *)
(***************************************************************************)
MaxRecords == 2

CategoryAbsent == -1
ScoreAbsent == -2

CategoryNames == <<"performance", "accessibility", "best-practices", "seo">>
CategorySet == { CategoryNames[k] : k \in 1..4 }

\* the audits the CSV has a column for, in column order
CsvAudits == <<"first-contentful-paint", "largest-contentful-paint",
               "cumulative-layout-shift", "total-blocking-time",
               "speed-index", "interactive">>
AuditIds == { CsvAudits[k] : k \in 1..6 } \cup {"max-potential-fid"}

\* fractions in thousandths: the ends, and values around the rounding and
\* band boundaries
Fractions == {0, 4, 5, 494, 495, 895, 1000}

NoCategories == [c \in CategorySet |-> CategoryAbsent]
NoAudits == [a \in AuditIds |-> Absent]
FullAudits == [a \in AuditIds |-> "1.2 s"]
SomeAudits == [a \in AuditIds |->
                 IF a \in {"speed-index", "max-potential-fid"} THEN Absent
                 ELSE IF a = "cumulative-layout-shift" THEN "0.01" ELSE "2.5 s"]

ErrorRecord(u, msg) ==
    [url |-> u, strategy |-> "mobile", error |-> msg,
     hasData |-> FALSE, hasLhr |-> FALSE, hasCategories |-> FALSE,
     categories |-> NoCategories, hasAudits |-> FALSE, audits |-> NoAudits,
     timestamp |-> Absent]

DataRecord(u, cats, hasAud, aud, ts) ==
    [url |-> u, strategy |-> "desktop", error |-> Absent,
     hasData |-> TRUE, hasLhr |-> TRUE, hasCategories |-> TRUE,
     categories |-> cats, hasAudits |-> hasAud, audits |-> aud,
     timestamp |-> ts]

\* records in which all four categories have a score
FullRecords ==
    { DataRecord("https://a.com", [c \in CategorySet |-> f], TRUE, FullAudits,
                 "2025-03-01T10:00:00.000Z") : f \in Fractions }
    \cup { DataRecord("https://b.org",
                      [c \in CategorySet |->
                         CASE c = "performance" -> 1000
                           [] c = "accessibility" -> 895
                           [] c = "best-practices" -> 495
                           [] OTHER -> 0],
                      TRUE, SomeAudits, Absent) }

\* records with analysis data that lack a category, a score, every category
\* or the audits
PartialRecords ==
    { DataRecord("https://a.com",
                 [c \in CategorySet |->
                    IF c = "performance" THEN CategoryAbsent ELSE 900],
                 TRUE, FullAudits, Absent),
      DataRecord("https://b.org",
                 [c \in CategorySet |-> IF c = "seo" THEN ScoreAbsent ELSE 500],
                 TRUE, FullAudits, "2025-03-01T10:00:00.000Z"),
      [DataRecord("https://a.com", NoCategories, TRUE, FullAudits, Absent)
          EXCEPT !.hasCategories = FALSE],
      DataRecord("https://b.org", [c \in CategorySet |-> 1000], FALSE,
                 NoAudits, Absent) }

\* records without analysis data: an error record, a record with neither
\* error nor data (strategy missing too), a record whose data has no
\* lighthouseResult
EmptyRecords ==
    { ErrorRecord("a.com", "Failed to fetch"),
      [ErrorRecord("https://b.org", Absent) EXCEPT !.strategy = Absent],
      [ErrorRecord("https://a.com", Absent) EXCEPT !.hasData = TRUE] }

RecordPool == FullRecords \cup PartialRecords \cup EmptyRecords

\* !result.data || !result.data.lighthouseResult
LacksLighthouse(r) == ~r.hasData \/ ~r.hasLhr

HasAllScores(r) ==
    /\ ~LacksLighthouse(r)
    /\ r.hasCategories
    /\ \A c \in CategorySet : r.categories[c] >= 0

\* Math.round(fraction * 100), half up, for a fraction in thousandths
Round100(f) == (f + 5) \div 10

\* the readings of the clock, new Date().toISOString()
Clock == {"2026-01-01T00:00:00.000Z", "2026-01-01T00:00:01.000Z"}

(***************************************************************************)
(* json2csv.  A cell is the text the Parser writes for a value: nothing    *)
(* for undefined, the digits for a number, the string in double quotes     *)
(* for a string.                                                           *)
(***************************************************************************)
EmptyCell == [quoted |-> FALSE, text |-> ""]
NumberCell(n) == [quoted |-> FALSE, text |-> ToString(n)]
NaNCell == [quoted |-> FALSE, text |-> "NaN"]
StringCell(str) == IF str = Absent THEN EmptyCell
                   ELSE [quoted |-> TRUE, text |-> str]

\* x || fallback, for strings
OrElse(x, fallback) == IF Falsy(x) THEN fallback ELSE x

\* exportService.js 66-70: the row of a record without lighthouseResult
BareRow(r, now) ==
    <<StringCell(r.url), StringCell(OrElse(r.strategy, "mobile"))>>
    \o [k \in 1..10 |-> EmptyCell]
    \o <<StringCell(now)>>

\* exportService.js 79-84: Math.round(lhr.categories.<c>.score * 100); an
\* undefined score times 100 is NaN
ScoreCell(r, c) ==
    IF r.categories[c] = ScoreAbsent THEN NaNCell
    ELSE NumberCell(Round100(r.categories[c]))

\* exportService.js 73-84: reading .score of a missing category, a category
\* of missing categories, or an audit of missing audits throws a TypeError
RowThrows(r) ==
    /\ ~LacksLighthouse(r)
    /\ \/ ~r.hasCategories
       \/ \E c \in CategorySet : r.categories[c] = CategoryAbsent
       \/ ~r.hasAudits

\* a row that is always stamped with the time of the call
DataRowStampsNow(r, now) ==
    <<StringCell(r.url), StringCell(OrElse(r.strategy, "mobile"))>>
    \o [k \in 1..4 |-> ScoreCell(r, CategoryNames[k])]
    \o [k \in 1..6 |-> StringCell(OrElse(r.audits[CsvAudits[k]], "N/A"))]
    \o <<StringCell(now)>>

\* exportService.js 76-95: the row of a record with lighthouseResult
DataRow(r, now) ==
    <<StringCell(r.url), StringCell(OrElse(r.strategy, "mobile"))>>
    \o [k \in 1..4 |-> ScoreCell(r, CategoryNames[k])]
    \o [k \in 1..6 |-> StringCell(OrElse(r.audits[CsvAudits[k]], "N/A"))]
    \o <<StringCell(OrElse(r.timestamp, now))>>

\* exportService.js 64-96: the callback of results.map
CsvRow(r, now) == IF LacksLighthouse(r) THEN BareRow(r, now) ELSE DataRow(r, now)

\* exportService.js 46-101: generateCSVReport; the Parser writes one line
\* per element of csvData, after the header
generateCSVReport(rs, now) ==
    IF \E i \in 1..Len(rs) : RowThrows(rs[i])
    THEN [status |-> "threw", rows |-> <<>>]
    ELSE [status |-> "returned", rows |-> [i \in 1..Len(rs) |-> CsvRow(rs[i], now)]]

\* part_003 162-173: <c>?.score ? Math.round(<c>.score * 100) : "N/A"
part3_ScoreCell(r, c) ==
    IF ~r.hasCategories \/ r.categories[c] <= 0 THEN StringCell("N/A")
    ELSE NumberCell(Round100(r.categories[c]))

\* part_003 145-185: the callback of results.map
part3_CsvRow(r, now) ==
    IF ~Falsy(r.error) \/ LacksLighthouse(r) THEN BareRow(r, now)
    ELSE <<StringCell(r.url), StringCell(OrElse(r.strategy, "mobile"))>>
         \o [k \in 1..4 |-> part3_ScoreCell(r, CategoryNames[k])]
         \o [k \in 1..6 |->
               StringCell(IF r.hasAudits
                          THEN OrElse(r.audits[CsvAudits[k]], "N/A")
                          ELSE "N/A")]
         \o <<StringCell(OrElse(r.timestamp, now))>>

\* part_003 126-195: generateCSVReport
part3_generateCSVReport(rs, now) ==
    [status |-> "returned", rows |-> [i \in 1..Len(rs) |-> part3_CsvRow(rs[i], now)]]

NoCsv == [status |-> "none", rows |-> <<>>]

InitCsv ==
    /\ BatchOff
    /\ results \in (SeqsUpTo(RecordPool, MaxRecords) \ { <<>> })
    /\ csv = [pc |-> "export", service |-> NoCsv, part3 |-> NoCsv]
    /\ cls = Off /\ cpdf = Off /\ spdf = Off /\ pdf3 = Off
    /\ LaterOff

notCsvVars == <<urls, strategy, tasks, pall, batch, outOfOrder,
                results, cls, cpdf, spdf, pdf3, laterVars>>

\* exportService.js 46-101
ExportCsv ==
    /\ csv.pc = "export"
    /\ csv.service.status = "none"
    /\ \E now \in Clock :
         csv' = [csv EXCEPT !.service = generateCSVReport(results, now)]
    /\ UNCHANGED notCsvVars

\* part_003 126-195
ExportCsvPart3 ==
    /\ csv.pc = "export"
    /\ csv.part3.status = "none"
    /\ \E now \in Clock :
         csv' = [csv EXCEPT !.part3 = part3_generateCSVReport(results, now)]
    /\ UNCHANGED notCsvVars

NextCsv == ExportCsv \/ ExportCsvPart3

SpecCsv == InitCsv /\ [][NextCsv]_vars

\* exportService.js 289-298: the four scores of a block of the detailed
\* section, Math.round(lhr.categories.<c>.score * 100)
DetailedScore(r, c) == Round100(r.categories[c])

\* part_003 95-98: the score the PDF line of a category shows,
\* category.score ? Math.round(category.score * 100) : "N/A"
part3_PdfScore(r, c) ==
    IF r.categories[c] <= 0 THEN "N/A" ELSE ToString(Round100(r.categories[c]))

(***************************************************************************)
(* Claims about the CSV builder.                                           *)
(***************************************************************************)
CsvOutputs == { csv.service, csv.part3 }

OnlyError(r) == ~Falsy(r.error) /\ ~r.hasData

LacksAScore(r) ==
    /\ ~LacksLighthouse(r)
    /\ \/ ~r.hasCategories
       \/ \E c \in CategorySet : r.categories[c] < 0

\* C4: generateCSVReport emits exactly one data row per input record, in
\* input order, and the row of a record with only error set has url,
\* strategy and testDate filled in and every metric column empty.
C4_OneRowPerRecord ==
    \A out \in CsvOutputs :
       out.status # "none" =>
          /\ out.status = "returned"
          /\ Len(out.rows) = Len(results)
          /\ \A i \in 1..Len(results) :
                /\ i <= Len(out.rows)
                /\ out.rows[i][1] = StringCell(results[i].url)
                /\ OnlyError(results[i]) =>
                      /\ \A k \in {1, 2, 13} : out.rows[i][k].text # ""
                      /\ \A k \in 3..12 : out.rows[i][k] = EmptyCell

\* C5: for a record with all four category scores present the CSV score
\* columns, and the score values of the PDF, are round(fraction * 100).
C5_ScoresRounded ==
    \A i \in 1..Len(results) :
       HasAllScores(results[i]) =>
          \A k \in 1..4 :
             LET c == CategoryNames[k]
                 want == Round100(results[i].categories[c])
             IN  /\ DetailedScore(results[i], c) = want
                 /\ \A out \in CsvOutputs :
                       out.status = "returned" =>
                          out.rows[i][2 + k] = NumberCell(want)

\* C6: for a record with analysis data that lacks a category or its score
\* generateCSVReport does not throw and writes "N/A" in that score column,
\* and it writes a score that is present and 0 as 0.
C6_MissingScoreIsNA ==
    \A out \in CsvOutputs :
       out.status # "none" =>
          /\ (\E i \in 1..Len(results) : LacksAScore(results[i]))
                => out.status = "returned"
          /\ out.status = "returned" =>
                \A i \in 1..Len(results) : \A k \in 1..4 :
                   LET r == results[i]
                       c == CategoryNames[k]
                   IN  ~LacksLighthouse(r) =>
                          /\ (~r.hasCategories \/ r.categories[c] < 0)
                                => out.rows[i][2 + k] = StringCell("N/A")
                          /\ (r.hasCategories /\ r.categories[c] = 0)
                                => out.rows[i][2 + k] = NumberCell(0)

(***************************************************************************)
(* The client-side PDF export, handleExportPDF of page.js (jsPDF, a4,      *)
(* unit pt).  cpdf is the state of its layout loop:                        *)
(*   i       the loop index (0-based), the cards before it are drawn       *)
(*   y       the variable y, the top of the first row of the page          *)
(*   pages   pages of the document so far                                  *)
(*   breaks  page breaks made since the last card was drawn                *)
(*   cards   the cards drawn: record index, page, top and bottom           *)
(***************************************************************************)
MaxCards == 4
MaxBreaks == 3

c_pageHeight == 841890
c_margin == 30000
c_cardMargin == 15000
c_cardHeight == 190000
c_headerHeight == 50000

\* the records the layouts are tried on: an error record, a full record, a
\* record with neither error nor data
LayoutPool ==
    { ErrorRecord("a.com", "Failed to fetch"),
      DataRecord("https://a.com", [c \in CategorySet |-> 895], TRUE,
                 FullAudits, Absent),
      [ErrorRecord("https://b.org", Absent) EXCEPT !.strategy = Absent] }

\* page.js 166-332: what the card shows
CardKind(r) ==
    IF ~Falsy(r.error) THEN "error"
    ELSE IF ~LacksLighthouse(r) /\ r.hasCategories THEN "scores"
    ELSE "no-data"

\* page.js 113-116, with cardsPerRow = 1
c_cardY(y, i) == y + i * (c_cardHeight + c_cardMargin)

\* page.js 119: the card does not fit above the bottom margin
c_needsPage(y, i) ==
    c_cardY(y, i) + c_cardHeight > c_pageHeight - c_margin

InitClientPdf ==
    /\ BatchOff
    /\ results \in (SeqsUpTo(LayoutPool, MaxCards) \ { <<>> })
    /\ cpdf = [pc |-> "loop", i |-> 0, y |-> c_margin + c_headerHeight,
               pages |-> 1, breaks |-> 0, cards |-> <<>>]
    /\ cls = Off /\ csv = Off /\ spdf = Off /\ pdf3 = Off
    /\ LaterOff

notCpdfVars == <<urls, strategy, tasks, pall, batch, outOfOrder,
                 results, cls, csv, spdf, pdf3, laterVars>>

\* page.js 109-333: one iteration of the loop over results.  A card that
\* does not fit starts a new page, resets y and is tried again (i--).
LayoutCard ==
    /\ cpdf.pc = "loop"
    /\ cpdf.i < Len(results)
    /\ cpdf.breaks < MaxBreaks
    /\ cpdf' =
         IF c_needsPage(cpdf.y, cpdf.i)
         THEN [cpdf EXCEPT !.pages = @ + 1, !.y = c_margin, !.breaks = @ + 1]
         ELSE [cpdf EXCEPT
                 !.i = @ + 1,
                 !.breaks = 0,
                 !.cards = Append(@,
                     [index |-> cpdf.i + 1, page |-> cpdf.pages,
                      top |-> c_cardY(cpdf.y, cpdf.i),
                      bottom |-> c_cardY(cpdf.y, cpdf.i) + c_cardHeight,
                      kind |-> CardKind(results[cpdf.i + 1])])]
    /\ UNCHANGED notCpdfVars

\* page.js 335-342: the loop is over, the document is saved
SavePdf ==
    /\ cpdf.pc = "loop"
    /\ cpdf.i = Len(results)
    /\ cpdf' = [cpdf EXCEPT !.pc = "saved"]
    /\ UNCHANGED notCpdfVars

NextClientPdf == LayoutCard \/ SavePdf

SpecClientPdf == InitClientPdf /\ [][NextClientPdf]_vars

(***************************************************************************)
(* PDFKit, as generatePDFReport of exportService.js uses it: an A4         *)
(* document with margins of 50, created without bufferPages.  A document   *)
(* d is                                                                    *)
(*   y, page        doc.y and the number of the current page               *)
(*   pages          pages created so far                                   *)
(*   bufStart       _pageBufferStart: pages already flushed                *)
(*   bufLen         _pageBuffer.length: pages still held                   *)
(*   font, size     the current font and font size                         *)
(*   boxes          the rectangles drawn: page, top, bottom, kind          *)
(*   footers        the page-number footers written: the page they are     *)
(*                  on and the i and N of "Page i of N"                    *)
(* Texts are taken to fit on one line.                                     *)
(***************************************************************************)
MaxPdfRecords == 3

k_pageHeight == 841890
k_margin == 50000

\* line height of a font per point of font size, with the line gap
\* (Helvetica: bounding box -225..931; Helvetica-Bold: -228..962)
LineHeightPerPt(font) == IF font = "Helvetica-Bold" THEN 1190 ELSE 1156

currentLineHeight(d) == d.size * LineHeightPerPt(d.font)

maxY == k_pageHeight - k_margin

NewDoc ==
    [y |-> k_margin, page |-> 1, pages |-> 1, bufStart |-> 0, bufLen |-> 1,
     font |-> "Helvetica", size |-> 12, boxes |-> <<>>, footers |-> {}]

SetFont(d, font, size) == [d EXCEPT !.font = font, !.size = size]

\* doc.addPage(): without bufferPages the pages held are flushed first
addPage(d) ==
    [d EXCEPT !.pages = @ + 1, !.page = d.pages + 1, !.y = k_margin,
              !.bufStart = d.bufStart + d.bufLen, !.bufLen = 1]

\* doc.text(str) at the current position: a line that would end below the
\* bottom margin goes to a new page; the line then advances y
Text(d) ==
    LET at == IF d.y + currentLineHeight(d) > maxY THEN addPage(d) ELSE d
    IN  [at EXCEPT !.y = @ + currentLineHeight(d)]

\* doc.text(str, x, y)
TextAt(d, y) == Text([d EXCEPT !.y = y])

\* doc.moveDown(n), n in halves of a line
moveDown(d, halves) == [d EXCEPT !.y = @ + (currentLineHeight(d) * halves) \div 2]

\* doc.rect(x, y, w, h).fillAndStroke(): drawn on the current page where it
\* is told to, whatever the margins
Rect(d, top, height, kind) ==
    [d EXCEPT !.boxes = Append(@, [page |-> d.page, top |-> top,
                                   bottom |-> top + height, kind |-> kind])]

\* exportService.js 104-124
addReportHeader(d) ==
    LET d1 == TextAt(SetFont(d, "Helvetica-Bold", 24), 60000)
        d2 == Text(SetFont(d1, "Helvetica", 16))
    IN  moveDown(d2, 4)

\* exportService.js 477-494
drawScoreBox(d, y) ==
    LET d1 == Rect(d, y, 60000, "score-box")
        d2 == TextAt(SetFont(d1, "Helvetica", 10), y + 10000)
    IN  TextAt(SetFont(d2, "Helvetica-Bold", 24), y + 25000)

\* the four boxes of a row, all at startY
ScoreBoxRow(d, startY) ==
    drawScoreBox(drawScoreBox(drawScoreBox(drawScoreBox(d, startY), startY),
                              startY), startY)

\* exportService.js 143: the records that enter the averages
IsValidResult(r) == r.hasData /\ r.hasLhr

\* exportService.js 145-148, 290-298: reading .score of a missing category
\* throws a TypeError
ScoresThrow(r) ==
    IsValidResult(r)
    /\ (~r.hasCategories \/ \E c \in CategorySet : r.categories[c] = CategoryAbsent)

\* exportService.js 126-231
addSummarySection(d, rs) ==
    LET d1 == Text(SetFont(d, "Helvetica-Bold", 16))
        d2 == moveDown(SetFont(d1, "Helvetica", 12), 1)
        d3 == moveDown(Text(Text(Text(d2))), 2)
        d4 == moveDown(Text(SetFont(d3, "Helvetica-Bold", 12)), 1)
        d5 == ScoreBoxRow(SetFont(d4, "Helvetica", 12), d4.y)
    IN  IF \E i \in 1..Len(rs) : IsValidResult(rs[i])
        THEN moveDown(d5, 10)
        ELSE d3

\* exportService.js 235-242, 253: the keys of resultsByUrl, in the order in
\* which the urls first appear
RECURSIVE UniqueUrls(_)
UniqueUrls(rs) ==
    IF rs = <<>> THEN <<>>
    ELSE LET front == UniqueUrls(SubSeq(rs, 1, Len(rs) - 1))
             u == rs[Len(rs)].url
         IN  IF \E k \in 1..Len(front) : front[k] = u THEN front
             ELSE Append(front, u)

\* the indices, in input order, of the records of resultsByUrl[u]
RECURSIVE IndicesOf(_, _)
IndicesOf(rs, u) ==
    IF rs = <<>> THEN <<>>
    ELSE LET front == IndicesOf(SubSeq(rs, 1, Len(rs) - 1), u)
         IN  IF rs[Len(rs)].url = u THEN Append(front, Len(rs)) ELSE front

\* exportService.js 417-441: row i (from 0) of the web-vitals table, 25 high,
\* with its two texts
TableRow(d, tableTop, i) ==
    LET rowY == tableTop + 25000 * (i + 1)
        d1 == Rect(d, rowY, 25000, "table-row")
        d2 == TextAt(SetFont(d1, "Helvetica", 12), rowY + 7000)
    IN  TextAt(d2, rowY + 7000)

\* exportService.js 267-275: the block of a record without lighthouseResult
NoDataBlock(d) == moveDown(Text(SetFont(d, "Helvetica", 12)), 2)

\* exportService.js 278-414: the block of a record with lighthouseResult, up
\* to the header of the web-vitals table
DataBlock(d) ==
    LET d1 == moveDown(Text(SetFont(d, "Helvetica-Bold", 13)), 1)
        d2 == moveDown(ScoreBoxRow(d1, d1.y), 10)
        d3 == moveDown(Text(SetFont(d2, "Helvetica-Bold", 13)), 1)
        d4 == Rect(SetFont(d3, "Helvetica-Bold", 12), d3.y, 25000,
                   "table-header")
    IN  TextAt(TextAt(d4, d3.y + 7000), d3.y + 7000)

\* exportService.js 383: tableTop is doc.y before the header is drawn, which
\* is its text's y less the 7 of its offset
TableTopOf(d) == d.boxes[Len(d.boxes)].top

\* exportService.js 266-445: a record of a url, throwing where the scores or
\* the audits cannot be read
BlockThrows(r) == ScoresThrow(r) \/ (IsValidResult(r) /\ ~r.hasAudits)

\* exportService.js 456-461: "Page i of n", written at page.height - 50
FooterText(d, i, n) ==
    LET d1 == TextAt([d EXCEPT !.size = 8], k_pageHeight - 50000)
    IN  [d1 EXCEPT !.footers = @ \cup {[page |-> d1.page, i |-> i, n |-> n]}]

\* doc.switchToPage(n) finds page n among the pages still held
CanSwitchToPage(d, n) == n - d.bufStart >= 0 /\ n - d.bufStart < d.bufLen

\* exportService.js 452-473: the loop of addFooter from i on; the result is
\* the document and whether switchToPage threw
RECURSIVE FooterLoop(_, _, _)
FooterLoop(d, i, pageCount) ==
    IF i >= pageCount THEN [doc |-> d, threw |-> FALSE]
    ELSE IF ~CanSwitchToPage(d, i) THEN [doc |-> d, threw |-> TRUE]
    ELSE LET d1 == FooterText([d EXCEPT !.page = i + 1], i + 1, pageCount)
             d2 == TextAt(d1, k_pageHeight - 40000)
         IN  FooterLoop(d2, i + 1, pageCount)

\* exportService.js 449-474; bufferedPageRange().count is the number of
\* pages still held
addFooter(d) == FooterLoop(d, 0, d.bufLen)

\* exportService.js 11-22: the promise is made, the document created
NewServerPdf ==
    [pc |-> "header", doc |-> NewDoc, groups |-> <<>>, g |-> 0,
     k |-> 0, row |-> 0, tableTop |-> 0, promise |-> "pending",
     thrownBy |-> "none", laidOut |-> 0, sections |-> <<>>]

InitServerPdf ==
    /\ BatchOff
    /\ results \in (SeqsUpTo(LayoutPool, MaxPdfRecords) \ { <<>> })
    /\ spdf = NewServerPdf
    /\ cls = Off /\ csv = Off /\ cpdf = Off /\ pdf3 = Off
    /\ LaterOff

notSpdfVars == <<urls, strategy, tasks, pall, batch, outOfOrder,
                 results, cls, csv, cpdf, pdf3, laterVars>>

\* a throw that ends the document in place of rejecting
ThrowEndsDocument(p, by) == [p EXCEPT !.pc = "ended", !.thrownBy = by]

Reject(p, by) == [p EXCEPT !.pc = "settled", !.promise = "rejected",
                           !.thrownBy = by]

\* exportService.js 13-25
PdfHeader ==
    /\ spdf.pc = "header"
    /\ spdf' = [spdf EXCEPT !.pc = "summary", !.doc = addReportHeader(spdf.doc)]
    /\ UNCHANGED notSpdfVars

\* exportService.js 28: a throw inside the executor rejects the promise
PdfSummary ==
    /\ spdf.pc = "summary"
    /\ spdf' = IF \E i \in 1..Len(results) : ScoresThrow(results[i])
               THEN Reject(spdf, "summary")
               ELSE [spdf EXCEPT !.pc = "detailed",
                                 !.doc = addSummarySection(spdf.doc, results)]
    /\ UNCHANGED notSpdfVars

\* Names that every object literal inherits from Object.prototype: for such
\* a url resultsByUrl[url] is a function or an object before any record is
\* stored, it is truthy, and it has no push.
InheritedNames ==
    {"constructor", "__proto__", "toString", "valueOf", "hasOwnProperty",
     "isPrototypeOf", "propertyIsEnumerable", "toLocaleString"}

\* exportService.js 235-242: resultsByUrl = {} is indexed by result.url;
\* resultsByUrl[url].push throws a TypeError for an inherited name
GroupingThrows(rs) == \E i \in 1..Len(rs) : rs[i].url \in InheritedNames

\* exportService.js 233-250; a throw rejects the promise of the executor
PdfDetailedStart ==
    /\ spdf.pc = "detailed"
    /\ spdf' = IF GroupingThrows(results) THEN Reject(spdf, "detailed")
               ELSE [spdf EXCEPT
                       !.pc = "url",
                       !.groups = UniqueUrls(results),
                       !.g = 1,
                       !.doc = moveDown(Text(SetFont(addPage(spdf.doc),
                                                     "Helvetica-Bold", 16)), 2)]
    /\ UNCHANGED notSpdfVars

\* exportService.js 253-263: the heading of the next url, on a new page but
\* for the first
PdfUrlHeading ==
    /\ spdf.pc = "url"
    /\ spdf.g <= Len(spdf.groups)
    /\ LET d0 == IF spdf.g > 1 THEN addPage(spdf.doc) ELSE spdf.doc
       IN  spdf' = [spdf EXCEPT
                      !.pc = "records",
                      !.k = 0,
                      !.sections = Append(@, [url |-> spdf.groups[spdf.g],
                                              blocks |-> <<>>]),
                      !.doc = moveDown(Text(SetFont(d0, "Helvetica-Bold", 14)), 1)]
    /\ UNCHANGED notSpdfVars

\* the record of the url that is laid out next
CurrentRecord == results[IndicesOf(results, spdf.groups[spdf.g])[spdf.k + 1]]

\* its place in the input
CurrentIndex == IndicesOf(results, spdf.groups[spdf.g])[spdf.k + 1]

\* the block of the record is begun under the heading written last
WithBlock(p) ==
    [p EXCEPT !.sections[Len(p.sections)].blocks = Append(@, CurrentIndex)]

\* the record laid out is the last of its url
LastOfUrl == spdf.k + 1 = Len(IndicesOf(results, spdf.groups[spdf.g]))

\* the loop of 266 moves to the next record, or that of 253 to the next url
NextRecord(p) ==
    [p EXCEPT !.k = IF LastOfUrl THEN 0 ELSE p.k + 1,
              !.g = IF LastOfUrl THEN p.g + 1 ELSE p.g,
              !.pc = IF LastOfUrl THEN "url" ELSE "records"]

\* exportService.js 266-414: the block of the next record of the url, for a
\* record with data up to the header of its table
PdfRecordBlock ==
    /\ spdf.pc = "records"
    /\ spdf' =
         IF BlockThrows(CurrentRecord) THEN Reject(spdf, "detailed")
         ELSE IF LacksLighthouse(CurrentRecord)
         THEN NextRecord([WithBlock(spdf) EXCEPT
                            !.doc = NoDataBlock(spdf.doc)])
         ELSE LET d == DataBlock(spdf.doc)
              IN  [WithBlock(spdf) EXCEPT !.doc = d, !.pc = "table",
                                          !.row = 0,
                                          !.tableTop = TableTopOf(d)]
    /\ UNCHANGED notSpdfVars

\* exportService.js 417-444: the next of the seven rows of the table; after
\* the last, moveDown(8)
PdfTableRow ==
    /\ spdf.pc = "table"
    /\ LET d == TableRow(spdf.doc, spdf.tableTop, spdf.row)
       IN  spdf' = IF spdf.row < 6
                   THEN [spdf EXCEPT !.doc = d, !.row = spdf.row + 1]
                   ELSE NextRecord([spdf EXCEPT !.doc = moveDown(d, 16),
                                                !.row = 0])
    /\ UNCHANGED notSpdfVars

\* exportService.js 34-37: addFooter, then doc.end(); the promise waits for
\* the end event
PdfFinish ==
    /\ spdf.pc = "url"
    /\ spdf.g > Len(spdf.groups)
    /\ LET f == addFooter(spdf.doc)
       IN  spdf' = IF f.threw
                   THEN [Reject(spdf, "footer") EXCEPT
                           !.doc = f.doc, !.laidOut = spdf.doc.pages]
                   ELSE [spdf EXCEPT !.pc = "ended",
                                     !.doc = f.doc, !.laidOut = spdf.doc.pages]
    /\ UNCHANGED notSpdfVars

NextServerPdf ==
    \/ PdfHeader
    \/ PdfSummary
    \/ PdfDetailedStart
    \/ PdfUrlHeading
    \/ PdfRecordBlock
    \/ PdfTableRow
    \/ PdfFinish

SpecServerPdf == InitServerPdf /\ [][NextServerPdf]_vars

(***************************************************************************)
(* generatePDFReport of part_003: a title page, then the records as lines  *)
(* of text at yPosition, which the loop keeps itself.                      *)
(***************************************************************************)
MaxPart3Records == 7

\* part_003 79-95: the categories that lighthouseResult.categories holds
PresentCategories(r) ==
    IF r.hasCategories
    THEN {c \in CategorySet : r.categories[c] # CategoryAbsent}
    ELSE {}

\* part_003 75-105: the lines of text of a record after its URL line, and
\* what the record adds to yPosition
Part3Lines(r) ==
    IF ~Falsy(r.error) THEN 1
    ELSE IF ~LacksLighthouse(r) THEN Cardinality(PresentCategories(r))
    ELSE 1

Part3Advance(r) ==
    IF ~Falsy(r.error) THEN 60000
    ELSE IF ~LacksLighthouse(r)
    THEN 20000 + 15000 * Cardinality(PresentCategories(r)) + 10000 + 20000
    ELSE 60000

\* part_003 75-105: the y of line n (from 1) after the URL line at y
Part3LineY(r, y, n) ==
    IF ~Falsy(r.error) \/ LacksLighthouse(r) THEN y + 20000
    ELSE y + 20000 + 15000 * (n - 1)

\* the lines n.. of a record written at their places
RECURSIVE Part3Write(_, _, _, _)
Part3Write(d, r, y, n) ==
    IF n > Part3Lines(r) THEN d
    ELSE Part3Write(TextAt(d, Part3LineY(r, y, n)), r, y, n + 1)

\* part_003 27-67: title, timestamp, summary, then the results page
Part3Front(d) ==
    LET d1 == TextAt(SetFont(d, "Helvetica-Bold", 24), 60000)
        d2 == TextAt(SetFont(d1, "Helvetica", 16), 100000)
        d3 == TextAt(SetFont(d2, "Helvetica", 10), 130000)
        d4 == TextAt(SetFont(d3, "Helvetica-Bold", 14), 180000)
        d5 == TextAt(SetFont(d4, "Helvetica", 12), 210000)
        d6 == TextAt(SetFont(addPage(d5), "Helvetica-Bold", 14), 60000)
    IN  SetFont(d6, "Helvetica", 12)

\* part_003 11-25: the promise is made, the document created
NewPart3Pdf ==
    [pc |-> "front", doc |-> NewDoc, i |-> 0, yPosition |-> 0,
     blocks |-> <<>>, promise |-> "pending"]

InitPart3Pdf ==
    /\ BatchOff
    /\ results \in (SeqsUpTo(LayoutPool, MaxPart3Records) \ { <<>> })
    /\ pdf3 = NewPart3Pdf
    /\ cls = Off /\ csv = Off /\ cpdf = Off /\ spdf = Off
    /\ LaterOff

notPdf3Vars == <<urls, strategy, tasks, pall, batch, outOfOrder,
                 results, cls, csv, cpdf, spdf, laterVars>>

\* part_003 13-70
Part3Start ==
    /\ pdf3.pc = "front"
    /\ pdf3' = [pdf3 EXCEPT !.pc = "loop", !.doc = Part3Front(pdf3.doc),
                            !.yPosition = 100000]
    /\ UNCHANGED notPdf3Vars

\* part_003 71-110: one call of the forEach callback
Part3Result ==
    /\ pdf3.pc = "loop"
    /\ pdf3.i < Len(results)
    /\ LET r == results[pdf3.i + 1]
           break == pdf3.yPosition > k_pageHeight - 150000
           d0 == IF break THEN addPage(pdf3.doc) ELSE pdf3.doc
           y0 == IF break THEN 60000 ELSE pdf3.yPosition
           d1 == SetFont(TextAt(SetFont(d0, "Helvetica-Bold", 12), y0),
                         "Helvetica", 12)
           d2 == Part3Write(d1, r, y0, 1)
       IN  pdf3' = [pdf3 EXCEPT
                      !.doc = d2,
                      !.i = @ + 1,
                      !.yPosition = y0 + Part3Advance(r),
                      !.blocks = Append(@,
                          [index |-> pdf3.i + 1, page |-> d0.page,
                           endPage |-> d2.page, top |-> y0,
                           bottom |-> d2.y])]
    /\ UNCHANGED notPdf3Vars

\* part_003 113: doc.end(); the promise waits for the end event
Part3End ==
    /\ pdf3.pc = "loop"
    /\ pdf3.i = Len(results)
    /\ pdf3' = [pdf3 EXCEPT !.pc = "ended"]
    /\ UNCHANGED notPdf3Vars

NextPart3Pdf == Part3Start \/ Part3Result \/ Part3End

SpecPart3Pdf == InitPart3Pdf /\ [][NextPart3Pdf]_vars

\* part_003 69-110: where the last line of the last record would end were
\* all the records laid out on the results page
RECURSIVE Part3Bottom(_)
Part3Bottom(rs) ==
    IF Len(rs) = 1
    THEN 100000 + Part3LineY(rs[1], 0, Part3Lines(rs[1]))
                + 12 * LineHeightPerPt("Helvetica")
    ELSE Part3Advance(rs[1]) + Part3Bottom(Tail(rs))

\* C8: the layout loop of each PDF export terminates, having drawn the card
\* of every record exactly once, on more than one page when the cards do
\* not fit on one.  The loop is deterministic in (i, y): a second page break
\* for the same card repeats the state of the first, and the loop never ends.
C8_LayoutTerminates ==
    /\ cpdf.pc # "off" => cpdf.breaks <= 1
    /\ cpdf.pc = "saved" =>
          /\ \A n \in 1..Len(results) :
                Cardinality({k \in 1..Len(cpdf.cards) :
                                cpdf.cards[k].index = n}) = 1
          /\ (c_needsPage(c_margin + c_headerHeight, Len(results) - 1)
                => cpdf.pages > 1)
    /\ pdf3.pc = "ended" =>
          /\ \A n \in 1..Len(results) :
                Cardinality({k \in 1..Len(pdf3.blocks) :
                                pdf3.blocks[k].index = n}) = 1
          /\ (Part3Bottom(results) > maxY => pdf3.doc.pages > 2)

\* a drawn rectangle lies between the top and the bottom margin of its page
WithinMargins(top, bottom, marginTop, pageBottom) ==
    top >= marginTop /\ bottom <= pageBottom

\* C9: in every PDF builder a block that would not fit above the bottom
\* margin is put on a new page, so that every box and every table row drawn
\* lies wholly within the vertical margins of one page.
C9_BlocksWithinMargins ==
    /\ cpdf.pc # "off" =>
          \A k \in 1..Len(cpdf.cards) :
             WithinMargins(cpdf.cards[k].top, cpdf.cards[k].bottom,
                           c_margin, c_pageHeight - c_margin)
    /\ spdf.pc # "off" =>
          \A k \in 1..Len(spdf.doc.boxes) :
             WithinMargins(spdf.doc.boxes[k].top, spdf.doc.boxes[k].bottom,
                           k_margin, maxY)
    /\ pdf3.pc # "off" =>
          \A k \in 1..Len(pdf3.blocks) :
             /\ pdf3.blocks[k].page = pdf3.blocks[k].endPage
             /\ WithinMargins(pdf3.blocks[k].top, pdf3.blocks[k].bottom,
                              k_margin, maxY)

\* C10: when generatePDFReport has laid out its content and completes, the
\* document is ended, every page carries the footer "Page i of N" with i
\* its number and N the number of pages, and stamping has added no page.
C10_EveryPageStamped ==
    (/\ spdf.pc \in {"settled", "ended"}
     /\ spdf.thrownBy \notin {"summary", "detailed"}) =>
        /\ spdf.pc = "ended"
        /\ spdf.doc.pages = spdf.laidOut
        /\ \A p \in 1..spdf.doc.pages :
              [page |-> p, i |-> p, n |-> spdf.doc.pages] \in spdf.doc.footers

(***************************************************************************)
(* The promise of generatePDFReport and the events of the document.  The   *)
(* document is a stream: every page flushed is a chunk, doc.end() flushes  *)
(* what is left; the data events deliver the chunks in order, the end      *)
(* event comes after the last of them.  stream is                          *)
(*   collected   the chunks the data handler has pushed                    *)
(*   value       the chunks of the buffer the promise was resolved with    *)
(*   ended       the end event has been handled                            *)
(*   errored     the document has emitted an error                         *)
(***************************************************************************)
MaxPromiseRecords == 2

NoBuffer == -1

\* records for the builders: an error record, a full record, a record that
\* lacks a category, a record that lacks its audits
PromisePool ==
    { ErrorRecord("a.com", "Failed to fetch"),
      DataRecord("https://a.com", [c \in CategorySet |-> 895], TRUE,
                 FullAudits, Absent),
      DataRecord("https://a.com",
                 [c \in CategorySet |->
                    IF c = "performance" THEN CategoryAbsent ELSE 900],
                 TRUE, FullAudits, Absent),
      DataRecord("https://b.org", [c \in CategorySet |-> 1000], FALSE,
                 NoAudits, Absent) }

\* the builder at work and its document
Job == IF spdf.pc # "off" THEN spdf ELSE pdf3

\* the chunks the document has written so far
Emitted(p) == IF p.pc = "ended" THEN p.doc.pages ELSE p.doc.bufStart

\* resolve(..) and reject(..) settle a promise that is pending and leave a
\* settled one alone
Settle_(p, how) == IF p.promise = "pending" THEN [p EXCEPT !.promise = how] ELSE p

InitPdfPromise ==
    /\ BatchOff
    /\ results \in (SeqsUpTo(PromisePool, MaxPromiseRecords) \ { <<>> })
    /\ \/ spdf = NewServerPdf /\ pdf3 = Off
       \/ spdf = Off /\ pdf3 = NewPart3Pdf
    /\ stream = [pc |-> "open", collected |-> 0, value |-> NoBuffer,
                 ended |-> FALSE, errored |-> FALSE]
    /\ cls = Off /\ csv = Off /\ cpdf = Off
    /\ route = Off /\ form = Off /\ card = Off /\ view = Off

notStreamVars == <<urls, strategy, tasks, pall, batch, outOfOrder,
                   results, cls, csv, cpdf, route, form, card, view>>

\* the builder at work goes on as p
JobBecomes(p) ==
    IF spdf.pc # "off" THEN spdf' = p /\ UNCHANGED pdf3
    ELSE pdf3' = p /\ UNCHANGED spdf

\* exportService.js 20, part_003 20: doc.on("data", chunk => chunks.push(chunk))
DataEvent ==
    /\ stream.pc = "open"
    /\ ~stream.ended
    /\ stream.collected < Emitted(Job)
    /\ stream' = [stream EXCEPT !.collected = @ + 1]
    /\ UNCHANGED <<spdf, pdf3>>
    /\ UNCHANGED notStreamVars

\* exportService.js 21, part_003 21:
\* doc.on("end", () => resolve(Buffer.concat(chunks)))
EndEvent ==
    /\ stream.pc = "open"
    /\ ~stream.ended
    /\ Job.pc = "ended"
    /\ stream.collected = Emitted(Job)
    /\ stream' = [stream EXCEPT
                    !.ended = TRUE,
                    !.value = IF Job.promise = "pending" THEN stream.collected
                              ELSE @]
    /\ JobBecomes(Settle_(Job, "resolved"))
    /\ UNCHANGED notStreamVars

\* exportService.js 22, part_003 22-25: doc.on("error", reject)
ErrorEvent ==
    /\ stream.pc = "open"
    /\ ~stream.ended
    /\ ~stream.errored
    /\ stream' = [stream EXCEPT !.errored = TRUE]
    /\ JobBecomes(Settle_(Job, "rejected"))
    /\ UNCHANGED notStreamVars

\* the executor of the builder at work
Executor == NextServerPdf \/ NextPart3Pdf

NextPdfPromise == Executor \/ DataEvent \/ EndEvent \/ ErrorEvent

SpecPdfPromise == InitPdfPromise /\ [][NextPdfPromise]_vars

\* the promise of the builder at work is resolved with every chunk of the
\* document, after its end event, and only when nothing went wrong
ResolvedWhole ==
    Job.promise = "resolved" =>
        /\ stream.ended
        /\ Job.pc = "ended"
        /\ stream.value = Job.doc.pages
        /\ ~stream.errored
        /\ spdf.pc # "off" => spdf.thrownBy = "none"

\* a throw of a layout step or an error of the document rejects
FailureRejects ==
    /\ stream.errored => Job.promise = "rejected"
    /\ (spdf.pc # "off" /\ spdf.thrownBy # "none") => spdf.promise = "rejected"

\* once the executor has thrown or the end event has been handled, the
\* promise is settled
SettledAtEnd ==
    (Job.pc = "settled" \/ stream.ended) => Job.promise # "pending"

\* C11: the promise of generatePDFReport settles exactly once; it resolves
\* only after the end event of the document, with every chunk emitted; it
\* rejects when a layout step throws or the document emits an error; it
\* never resolves with a buffer that lacks part of the document.
C11_SettlesOnceWhole ==
    /\ [](ResolvedWhole /\ FailureRejects /\ SettledAtEnd)
    /\ [][Job.promise # "pending" => Job'.promise = Job.promise]_vars

\* a report of part_003 has been resolved, after its end event, with both
\* its pages
C11_Witness ==
    /\ pdf3.pc = "ended" /\ pdf3.promise = "resolved"
    /\ stream.ended /\ stream.value = 2

(***************************************************************************)
(* The export endpoint, POST /api/export/[format] (unnamed/part_000, in    *)
(* two versions).  Version 1 (lines 3-66) names generateCSVReport and      *)
(* generatePDFReport but imports neither, so that a call of either throws  *)
(* a ReferenceError; version 2 (lines 82-160) imports them.  The builders  *)
(* imported are those of exportService.js or of its copy part_003.         *)
(***************************************************************************)
MaxRouteRecords == 2

Versions == {1, 2}

\* what request.json() finds in the body
Bodies == {"invalid-json", "null", "no-results", "not-array", "empty", "records"}

Formats == {"csv", "pdf", "xml"}

Builders == {"service", "part3"}

RoutePool ==
    { ErrorRecord("a.com", "Failed to fetch"),
      DataRecord("https://a.com", [c \in CategorySet |-> 895], TRUE,
                 FullAudits, Absent),
      DataRecord("https://a.com",
                 [c \in CategorySet |->
                    IF c = "performance" THEN CategoryAbsent ELSE 900],
                 TRUE, FullAudits, Absent) }

\* part_000 1, 76-80: the names of the builders are bound by an import
Imported(version) == version = 2

\* a version that forgets the await of line 132
NeverAwaits(version) == FALSE

\* part_000 47, 132: the call of generatePDFReport is awaited
AwaitsBuilder(version) == version = 2

\* exportService.js 10-39: how the promise of generatePDFReport settles.
\* At addFooter the document has at least the page of line 244 after its
\* first.
ServerPdfOutcome(rs) ==
    IF \/ \E i \in 1..Len(rs) : ScoresThrow(rs[i]) \/ BlockThrows(rs[i])
       \/ addFooter(addPage(addReportHeader(NewDoc))).threw
    THEN "rejected"
    ELSE "resolved"

\* part_003 10-119: no step of the layout throws on these records
Part3PdfOutcome(rs) == "resolved"

\* the result of the csv builder imported
CsvStatus(builder, rs, now) ==
    IF builder = "service" THEN generateCSVReport(rs, now).status
    ELSE part3_generateCSVReport(rs, now).status

\* NextResponse.json({error}, {status}) and new Response(content, headers)
JsonError(r, code) ==
    [r EXCEPT !.pc = "answered", !.status = code, !.payload = "json-error",
              !.genAtAnswer = r.gen]

FileAnswer(r, kind) ==
    [r EXCEPT !.pc = "answered", !.status = 200, !.payload = kind,
              !.genAtAnswer = r.gen]

InitRoute ==
    /\ BatchOff
    /\ \E body \in Bodies :
         /\ results \in IF body = "records"
                        THEN SeqsUpTo(RoutePool, MaxRouteRecords) \ { <<>> }
                        ELSE { <<>> }
         /\ route \in [pc : {"start"}, version : Versions, body : {body},
                       format : Formats, builder : Builders, status : {0},
                       payload : {"none"}, calledCsv : {FALSE},
                       calledPdf : {FALSE}, gen : {"none"},
                       genAtAnswer : {"none"}]
    /\ cls = Off /\ csv = Off /\ cpdf = Off /\ spdf = Off /\ pdf3 = Off
    /\ stream = Off /\ form = Off /\ card = Off /\ view = Off

notRouteVars == <<urls, strategy, tasks, pall, batch, outOfOrder,
                  results, cls, csv, cpdf, spdf, pdf3,
                  stream, form, card, view>>

\* part_000 3-21, 82-97: up to the body, read by await request.json()
RouteReceive ==
    /\ route.pc = "start"
    /\ route' = IF route.body = "invalid-json" THEN JsonError(route, 400)
                ELSE [route EXCEPT !.pc = "parsed"]
    /\ UNCHANGED notRouteVars

\* part_000 33-44, 109-127: the csv branch
CsvBranch(r, now) ==
    IF ~Imported(r.version) THEN JsonError(r, 500)
    ELSE LET st == CsvStatus(r.builder, results, now)
             r1 == [r EXCEPT !.calledCsv = TRUE, !.gen = st]
         IN  IF st = "threw" THEN JsonError(r1, 500) ELSE FileAnswer(r1, "csv")

\* part_000 46-56, 129-133: the pdf branch up to the call
PdfBranch(r) ==
    IF ~Imported(r.version) THEN JsonError(r, 500)
    ELSE LET r1 == [r EXCEPT !.calledPdf = TRUE, !.gen = "pending"]
         IN  IF AwaitsBuilder(r.version) THEN [r1 EXCEPT !.pc = "awaiting"]
             ELSE FileAnswer(r1, "promise-text")

\* part_000 23-65, 99-159: from the parsed body to the answer or the await
RouteHandle ==
    /\ route.pc = "parsed"
    /\ \E now \in Clock :
         route' =
           IF route.body = "null" THEN JsonError(route, 500)
           ELSE IF route.body # "records" THEN JsonError(route, 400)
           ELSE IF route.format = "csv" THEN CsvBranch(route, now)
           ELSE IF route.format = "pdf" THEN PdfBranch(route)
           ELSE JsonError(route, 400)
    /\ UNCHANGED notRouteVars

\* the promise of generatePDFReport settles
PdfSettles ==
    /\ route.pc # "off"
    /\ route.gen = "pending"
    /\ route' = [route EXCEPT
                   !.gen = IF route.builder = "service"
                           THEN ServerPdfOutcome(results)
                           ELSE Part3PdfOutcome(results)]
    /\ UNCHANGED notRouteVars

\* part_000 132-146: the await of generatePDFReport is over
RouteResume ==
    /\ route.pc = "awaiting"
    /\ route.gen \in {"resolved", "rejected"}
    /\ route' = IF route.gen = "resolved" THEN FileAnswer(route, "pdf")
                ELSE JsonError(route, 500)
    /\ UNCHANGED notRouteVars

NextRoute == RouteReceive \/ RouteHandle \/ PdfSettles \/ RouteResume

SpecRoute == InitRoute /\ [][NextRoute]_vars

\* the request has no usable results or names no supported format
BadRequest(r) ==
    \/ r.body \in {"invalid-json", "null", "no-results", "not-array", "empty"}
    \/ r.format \notin {"csv", "pdf"}

\* C12: a request whose results is missing, not an array or empty, or whose
\* format is neither csv nor pdf, is answered with status 400 and neither
\* builder is called; a failure inside generation is answered with 500.
C12_BadInputIs400 ==
    route.pc = "answered" =>
        /\ BadRequest(route) =>
              route.status = 400 /\ ~route.calledCsv /\ ~route.calledPdf
        /\ route.gen \in {"threw", "rejected"} => route.status = 500

\* C13: the endpoint answers with a file only after the builder has produced
\* the whole content; when the builder throws or rejects the answer is a
\* JSON error body with an error status and no file.
C13_FileOnlyWhenBuilt ==
    route.pc = "answered" =>
        /\ route.payload # "json-error" =>
              /\ route.status = 200
              /\ route.payload \in {"csv", "pdf"}
              /\ route.genAtAnswer \in {"returned", "resolved"}
        /\ route.gen \in {"threw", "rejected"} =>
              route.status >= 400 /\ route.payload = "json-error"

\* a pdf has been delivered, after the promise of its builder resolved
C13_Witness ==
    /\ route.pc = "answered" /\ route.format = "pdf"
    /\ route.payload = "pdf" /\ route.genAtAnswer = "resolved"

(***************************************************************************)
(* The url sent to the external API (pagespeedService.js 29-38), for urls  *)
(* with and without a scheme.                                              *)
(***************************************************************************)
\* scheme tokens a submitted url may start with; schemes are case-insensitive
SchemeTokens == {"http://", "https://", "HTTP://"}

SchemePool == UrlPool \cup { <<"https://", "a.com">>, <<"HTTP://", "b.org">> }

\* the url starts with a scheme
CarriesScheme(u) == Len(u) > 0 /\ u[1] \in SchemeTokens

\* runPageSpeedTests called with one url of the pool
InitNormalize ==
    /\ urls \in { <<u>> : u \in SchemePool }
    /\ strategy \in Strategies
    /\ tasks = [i \in 1..Len(urls) |->
                  [pc |-> "idle", processedUrl |-> <<>>, outcome |-> "pending",
                   promise |-> Pending, body |-> NoBody]]
    /\ pall = [status |-> "none", values |-> [i \in 1..Len(urls) |-> NoRecord],
               count |-> 0, reason |-> Absent]
    /\ batch = [pc |-> "map", issued |-> 0, result |-> <<>>, thrown |-> Absent]
    /\ outOfOrder = FALSE
    /\ results = <<>>
    /\ cls = Off /\ csv = Off /\ cpdf = Off /\ spdf = Off /\ pdf3 = Off
    /\ LaterOff

SpecNormalize == InitNormalize /\ [][NextBatch]_vars

\* C14: the url parameter sent for a submitted url u is "https://" + u when
\* u carries no scheme and u itself when it carries one, and normalizing the
\* url sent changes nothing.
C14_UrlNormalized ==
    \A i \in 1..Len(tasks) :
       tasks[i].pc # "idle" =>
          /\ tasks[i].processedUrl =
                IF CarriesScheme(urls[i]) THEN urls[i]
                ELSE <<"https://">> \o urls[i]
          /\ ProcessedUrl(tasks[i].processedUrl) = tasks[i].processedUrl

(***************************************************************************)
(* The consumers of the records, each applied to the same results: the     *)
(* summary and the detailed section of the PDF (exportService.js), the     *)
(* lines of the PDF of part_003 and of the cards of the client PDF         *)
(* (page.js), the result card (ResultCard.jsx) and two calls of            *)
(* generateCSVReport.                                                      *)
(***************************************************************************)
ConsumerPool ==
    { r \in FullRecords : r.categories["seo"] \in {0, 495, 895} }
    \cup PartialRecords \cup EmptyRecords

\* NaN, where a number is expected
NaNAverage == ScoreAbsent

\* the sum of f[i] over the indices i in I
RECURSIVE SumOver(_, _)
SumOver(I, f) ==
    IF I = {} THEN 0
    ELSE LET i == CHOOSE j \in I : TRUE IN f[i] + SumOver(I \ {i}, f)

\* Math.round(total / n), half up, for a total of fractions in thousandths
\* times 100
RoundedMean(total, n) == (2 * total + 10 * n) \div (20 * n)

\* exportService.js 142-151: the records that enter the totals
ValidResults(rs) == {i \in 1..Len(rs) : IsValidResult(rs[i])}

\* exportService.js 142-165: the average of a category; a score that is
\* undefined makes the total NaN
Average(rs, c) ==
    IF \E i \in ValidResults(rs) : rs[i].categories[c] = ScoreAbsent
    THEN NaNAverage
    ELSE RoundedMean(SumOver(ValidResults(rs),
                             [i \in 1..Len(rs) |-> rs[i].categories[c]]),
                     Cardinality(ValidResults(rs)))

\* exportService.js 133: [...new Set(results.map((r) => r.url))].length
UniqueUrlCount(rs) == Cardinality({rs[i].url : i \in 1..Len(rs)})

\* exportService.js 126-231: what the summary shows; counts are "URLs
\* Tested" and "Tests Run", which are written after the loop that sums the
\* scores
Summary(rs) ==
    IF \E i \in 1..Len(rs) : ScoresThrow(rs[i])
    THEN [status |-> "threw", boxes |-> FALSE, avg |-> NoCategories,
          counts |-> <<>>]
    ELSE [status |-> "returned",
          counts |-> <<UniqueUrlCount(rs), Len(rs)>>,
          boxes |-> ValidResults(rs) # {},
          avg |-> IF ValidResults(rs) # {}
                  THEN [c \in CategorySet |-> Average(rs, c)]
                  ELSE NoCategories]

\* exportService.js 266-276: the line of a record without lighthouseResult
\* says nothing of its error
ServerLine(r) ==
    IF LacksLighthouse(r)
    THEN <<"No valid data available for ", OrElse(r.strategy, "mobile"), " test">>
    ELSE <<"scores">>

\* exportService.js 233-447: the lines of the detailed section
ServerLines(rs) ==
    [status |-> IF \E i \in 1..Len(rs) : BlockThrows(rs[i])
                THEN "threw" ELSE "returned",
     lines |-> [i \in 1..Len(rs) |-> ServerLine(rs[i])]]

\* part_003 81-107: without categories nothing follows the URL line
Part3Line(r) ==
    IF ~Falsy(r.error) THEN <<"Error: ", r.error>>
    ELSE IF ~LacksLighthouse(r)
    THEN (IF r.hasCategories THEN <<"scores">> ELSE <<>>)
    ELSE <<"No valid data available">>

Part3LinesOf(rs) ==
    [status |-> "returned", lines |-> [i \in 1..Len(rs) |-> Part3Line(rs[i])]]

\* page.js 166-332
ClientLine(r) ==
    IF CardKind(r) = "error" THEN <<"Error: ", r.error>>
    ELSE IF CardKind(r) = "scores" THEN <<"scores">>
    ELSE <<"No valid data available">>

ClientLines(rs) ==
    [status |-> "returned", lines |-> [i \in 1..Len(rs) |-> ClientLine(rs[i])]]

\* ResultCard.jsx 42-48, part_002 39-45: score ? score * 100 : 0, in
\* thousandths of 100
card_Score(r, c) == IF r.categories[c] <= 0 THEN 0 ELSE r.categories[c]

\* an extractor that leaves a missing displayValue undefined
card_VitalRaw(r, a) == IF r.hasAudits THEN r.audits[a] ELSE Absent

\* ResultCard.jsx 51-63, part_002 48-60: audits[id]?.displayValue || 'N/A',
\* with audits = lighthouseResult.audits || {}
card_Vital(r, a) == IF r.hasAudits THEN OrElse(r.audits[a], "N/A") ELSE "N/A"

\* ResultCard.jsx 2-135: what the card of a record shows; the scores are
\* shown as Math.round(score)
ResultCard(r) ==
    IF ~Falsy(r.error)
    THEN [kind |-> "error", text |-> r.error, scores |-> NoCategories,
          shown |-> NoCategories, vitals |-> NoAudits]
    ELSE IF ~r.hasData \/ ~r.hasLhr \/ ~r.hasCategories
    THEN [kind |-> "placeholder",
          text |-> "Invalid or incomplete response data",
          scores |-> NoCategories, shown |-> NoCategories, vitals |-> NoAudits]
    ELSE [kind |-> "metrics", text |-> "",
          scores |-> [c \in CategorySet |-> card_Score(r, c)],
          shown |-> [c \in CategorySet |-> (card_Score(r, c) + 5) \div 10],
          vitals |-> [a \in AuditIds |-> card_Vital(r, a)]]

Consumers == {"summary", "summary3", "detailed", "detailed3", "clientPdf",
              "card", "csv-service", "csv-part3"}

NoOutput == [status |-> "none"]

InitConsumers ==
    /\ BatchOff
    /\ results \in (SeqsUpTo(ConsumerPool, MaxRecords) \ { <<>> })
    /\ \E op \in Consumers :
         /\ view = [pc |-> "ready", op |-> op, given |-> results,
                    out |-> NoOutput, again |-> NoOutput]
         /\ card = IF op = "card" THEN [pc |-> "idle", cards |-> <<>>] ELSE Off
    /\ cls = Off /\ csv = Off /\ cpdf = Off /\ spdf = Off /\ pdf3 = Off
    /\ stream = Off /\ route = Off /\ form = Off

notConsumerVars == <<urls, strategy, tasks, pall, batch, outOfOrder,
                     results, cls, csv, cpdf, spdf, pdf3, stream, route, form>>

Delivers(o) == view' = [view EXCEPT !.pc = "done", !.out = o]

\* exportService.js 126-231
AddSummary ==
    /\ view.pc = "ready" /\ view.op = "summary"
    /\ Delivers(Summary(results))
    /\ UNCHANGED card
    /\ UNCHANGED notConsumerVars

\* exportService.js 233-447
AddDetailed ==
    /\ view.pc = "ready" /\ view.op = "detailed"
    /\ Delivers(ServerLines(results))
    /\ UNCHANGED card
    /\ UNCHANGED notConsumerVars

\* part_003 50-57: the summary of the title page has one count, "URLs
\* tested: ${results.length}"
Part3Summary ==
    /\ view.pc = "ready" /\ view.op = "summary3"
    /\ Delivers([status |-> "returned", counts |-> <<Len(results)>>])
    /\ UNCHANGED card
    /\ UNCHANGED notConsumerVars

\* part_003 69-110
Part3Detailed ==
    /\ view.pc = "ready" /\ view.op = "detailed3"
    /\ Delivers(Part3LinesOf(results))
    /\ UNCHANGED card
    /\ UNCHANGED notConsumerVars

\* page.js 109-333
ClientCards ==
    /\ view.pc = "ready" /\ view.op = "clientPdf"
    /\ Delivers(ClientLines(results))
    /\ UNCHANGED card
    /\ UNCHANGED notConsumerVars

\* ResultCard.jsx 2-135, once per record
RenderCards ==
    /\ view.pc = "ready" /\ view.op = "card"
    /\ card' = [pc |-> "rendered",
                cards |-> [i \in 1..Len(results) |-> ResultCard(results[i])]]
    /\ view' = [view EXCEPT !.pc = "done"]
    /\ UNCHANGED notConsumerVars

\* exportService.js 46-101, part_003 126-195: generateCSVReport is called,
\* a first and a second time
CallCsv ==
    /\ view.pc \in {"ready", "once"}
    /\ view.op \in {"csv-service", "csv-part3"}
    /\ \E now \in Clock :
         LET o == IF view.op = "csv-service"
                  THEN generateCSVReport(results, now)
                  ELSE part3_generateCSVReport(results, now)
         IN  view' = IF view.pc = "ready"
                     THEN [view EXCEPT !.pc = "once", !.out = o]
                     ELSE [view EXCEPT !.pc = "done", !.again = o]
    /\ UNCHANGED card
    /\ UNCHANGED notConsumerVars

NextConsumers ==
    \/ AddSummary
    \/ Part3Summary
    \/ AddDetailed
    \/ Part3Detailed
    \/ ClientCards
    \/ RenderCards
    \/ CallCsv

SpecConsumers == InitConsumers /\ [][NextConsumers]_vars

\* the records in which category c is present with a score
WithCategory(rs, c) ==
    {i \in ValidResults(rs) : rs[i].hasCategories /\ rs[i].categories[c] >= 0}

\* C15: the summary shows the average boxes iff some record has analysis
\* data; each average is the rounded mean of fraction*100 over the records
\* in which the category is present; no record makes the builder throw.
C15_SummaryAverages ==
    (view.pc = "done" /\ view.op = "summary") =>
        /\ view.out.status = "returned"
        /\ view.out.boxes <=> (ValidResults(results) # {})
        /\ \A c \in CategorySet :
              WithCategory(results, c) # {} =>
                 view.out.avg[c] =
                    RoundedMean(SumOver(WithCategory(results, c),
                                        [i \in 1..Len(results) |->
                                           results[i].categories[c]]),
                                Cardinality(WithCategory(results, c)))

\* a line that says that the record has no data
IsNoDataLine(l) ==
    l # <<>> /\ l[1] \in {"No valid data available",
                          "No valid data available for "}

PdfLineOps == {"detailed", "detailed3", "clientPdf"}

\* C16: in the PDF a record without analysis data is the line
\* "Error: <message>" when it has an error and "No valid data available"
\* when it has neither; the message of an error record is never left out.
C16_ErrorLineShown ==
    (view.pc = "done" /\ view.op \in PdfLineOps) =>
        \A i \in 1..Len(results) :
           LacksLighthouse(results[i]) =>
              IF ~Falsy(results[i].error)
              THEN view.out.lines[i] = <<"Error: ", results[i].error>>
              ELSE IsNoDataLine(view.out.lines[i])

\* the record has neither an error nor usable data
NeitherErrorNorData(r) ==
    Falsy(r.error) /\ (LacksLighthouse(r) \/ ~r.hasCategories)

\* C17: for a record with neither error nor usable data every consumer
\* completes without throwing and renders a placeholder for the record.
C17_PlaceholderEverywhere ==
    view.pc = "done" =>
        \A i \in 1..Len(results) :
           NeitherErrorNorData(results[i]) =>
              /\ view.op = "card" => card.cards[i].kind = "placeholder"
              /\ view.op # "card" => view.out.status = "returned"
              /\ view.op \in PdfLineOps => IsNoDataLine(view.out.lines[i])
              /\ view.op \in {"csv-service", "csv-part3"} =>
                    \A k \in 3..12 : view.out.rows[i][k].text \in {"", "N/A"}

\* the record gets a card with metrics
HasCategories(r) ==
    Falsy(r.error) /\ r.hasData /\ r.hasLhr /\ r.hasCategories

\* C19: on a record that has categories the card's extractor does not
\* throw; each score is round(fraction*100), or 0 when the category or its
\* score is absent; each web vital is the displayValue of its audit, or
\* "N/A" when the audit or its displayValue is absent.
C19_CardMetrics ==
    (view.pc = "done" /\ view.op = "card") =>
        \A i \in 1..Len(results) :
           HasCategories(results[i]) =>
              /\ card.cards[i].kind = "metrics"
              /\ \A c \in CategorySet :
                    card.cards[i].shown[c] =
                       IF results[i].categories[c] >= 0
                       THEN Round100(results[i].categories[c]) ELSE 0
              /\ \A a \in AuditIds :
                    card.cards[i].vitals[a] =
                       IF results[i].hasAudits /\ results[i].audits[a] # Absent
                       THEN results[i].audits[a] ELSE "N/A"

\* cards have been rendered for a record without its performance category
\* and a record without its speed-index audit
C19_Witness ==
    /\ view.pc = "done" /\ view.op = "card"
    /\ \E i, j \in 1..Len(results) :
          /\ HasCategories(results[i])
          /\ results[i].categories["performance"] = CategoryAbsent
          /\ card.cards[i].shown["performance"] = 0
          /\ HasCategories(results[j])
          /\ results[j].hasAudits
          /\ results[j].audits["speed-index"] = Absent
          /\ card.cards[j].vitals["speed-index"] = "N/A"

CsvOps == {"csv-service", "csv-part3"}

MaxBlocks == 2

c_maxUrls == 50

Whitespace == {" ", "\t"}

\* Raw lines a user may type or paste: empty, blank, padded, and padded
\* with a space inside.
LinePool ==
    { <<>>, <<" ", "\t">>, <<" ", "a.com", " ">>,
      <<"\t", "c.net", " ", "d", "\t">> }

\* How often a block repeats its line: around one and around the cap.
LineCounts == {1, 50, 51}

\* The line n times, one per line of the text.
Repeat(line, n) ==
    LET step == Len(line) + 1 IN
    [i \in 1..(n * step - 1) |->
        IF i % step = 0 THEN "\n" ELSE line[i % step]]

RECURSIVE TextOf(_)
TextOf(blocks) ==
    IF Len(blocks) = 1
    THEN Repeat(blocks[1][1], blocks[1][2])
    ELSE Repeat(blocks[1][1], blocks[1][2]) \o <<"\n">> \o TextOf(Tail(blocks))

\* The pieces of s[lo..hi] between its separators; the separator nearest
\* to the middle is taken first, so that the nesting stays shallow.
RECURSIVE SplitRange(_, _, _)
SplitRange(s, lo, hi) ==
    LET breaks == {i \in lo..hi : s[i] = "\n"}
        mid == (lo + hi) \div 2
        Dist(i) == IF i < mid THEN mid - i ELSE i - mid
    IN  IF breaks = {} THEN <<SubSeq(s, lo, hi)>>
        ELSE LET b == CHOOSE i \in breaks :
                          \A j \in breaks : Dist(i) <= Dist(j)
             IN  SplitRange(s, lo, b - 1) \o SplitRange(s, b + 1, hi)

\* String.prototype.split("\n")
Split(s) == SplitRange(s, 1, Len(s))

RECURSIVE TrimStart(_)
TrimStart(line) ==
    IF line # <<>> /\ Head(line) \in Whitespace THEN TrimStart(Tail(line))
    ELSE line

RECURSIVE TrimEnd(_)
TrimEnd(line) ==
    IF line # <<>> /\ line[Len(line)] \in Whitespace
    THEN TrimEnd(SubSeq(line, 1, Len(line) - 1))
    ELSE line

TrimKeepsPadding(line) == line

\* String.prototype.trim()
Trim(line) == TrimEnd(TrimStart(line))

\* urls.split("\n").map(url => url.trim()).filter(url => url.length > 0)
UrlListOf(text) ==
    LET lines == Split(text)
        trimmed == [i \in 1..Len(lines) |-> Trim(lines[i])]
    IN  SelectSeq(trimmed, LAMBDA url : Len(url) > 0)

\* useState([]), line 13; results is where its records come from and how
\* many they are
NoResults == [from |-> "initial", count |-> 0]

InitSubmit ==
    /\ BatchOff
    /\ results = Off /\ cls = Off /\ csv = Off /\ cpdf = Off
    /\ spdf = Off /\ pdf3 = Off
    /\ stream = Off /\ route = Off /\ card = Off /\ view = Off
    /\ \E blocks \in SeqsUpTo(LinePool \X LineCounts, MaxBlocks) \ {<<>>},
          before \in {NoResults, [from |-> "earlier", count |-> 2]} :
           form = [pc |-> "idle", urls |-> TextOf(blocks), error |-> "",
                   loading |-> FALSE, results |-> before, calls |-> <<>>]

notFormVars == <<urls, strategy, tasks, pall, batch, outOfOrder,
                 results, cls, csv, cpdf, spdf, pdf3, stream, route,
                 card, view>>

\* a rejection that also empties the results
RejectClearsResults(f, message) ==
    [f EXCEPT !.pc = "rejected", !.error = message,
              !.results = [from |-> "cleared", count |-> 0]]

\* Lines 21, 30-38: setError(message); return
RejectInput(f, message) == [f EXCEPT !.pc = "rejected", !.error = message]

\* a run that never shows the spinner
StartRunSilently(f, urlList) ==
    [f EXCEPT !.pc = "awaiting", !.error = "",
              !.results = [from |-> "cleared", count |-> 0],
              !.calls = Append(@, urlList)]

\* Lines 21, 40-45: setLoading(true), setResults([]), then the call
StartRun(f, urlList) ==
    [f EXCEPT !.pc = "awaiting", !.error = "", !.loading = TRUE,
              !.results = [from |-> "cleared", count |-> 0],
              !.calls = Append(@, urlList)]

\* Lines 19-45: up to the early return or the await.
handleSubmit ==
    /\ form.pc = "idle"
    /\ LET urlList == UrlListOf(form.urls) IN
       form' =
           IF Len(urlList) = 0
           THEN RejectInput(form, "Please enter at least one URL")
           ELSE IF Len(urlList) > c_maxUrls
           THEN RejectInput(form, "Maximum 27 URLs allowed")
           ELSE StartRun(form, urlList)
    /\ UNCHANGED notFormVars

\* Lines 45-46, 49-51: runPageSpeedTests resolved, with one record per url
\* (pagespeedService.js 11-13), then finally.
TestsResolve ==
    /\ form.pc = "awaiting"
    /\ form' = [form EXCEPT
                  !.pc = "shown",
                  !.results = [from |-> "run",
                               count |-> Len(form.calls[Len(form.calls)])],
                  !.loading = FALSE]
    /\ UNCHANGED notFormVars

\* Lines 47-51: runPageSpeedTests rejected.
TestsReject ==
    /\ form.pc = "awaiting"
    /\ form' = [form EXCEPT !.pc = "failed",
                            !.error = "Error running tests: message",
                            !.loading = FALSE]
    /\ UNCHANGED notFormVars

NextSubmit ==
    \/ handleSubmit
    \/ TestsResolve
    \/ TestsReject

SpecSubmit == InitSubmit /\ [][NextSubmit]_vars

\* A line with a character that is not whitespace.
NonBlank(line) == \E i \in 1..Len(line) : line[i] \notin Whitespace

NonBlankLines(text) ==
    LET lines == Split(text)
    IN  Cardinality({i \in 1..Len(lines) : NonBlank(lines[i])})

TrimmedUrl(url) ==
    /\ url # <<>>
    /\ url[1] \notin Whitespace
    /\ url[Len(url)] \notin Whitespace

\* C18: handleSubmit calls runPageSpeedTests only with a list of 1 to 50
\* trimmed, non-blank URLs; an input with no non-blank line or with more
\* than 50 URLs ends with an error message and no call.
C18_SubmitGuarded ==
    form.pc \notin {"off", "idle"} =>
        /\ \A k \in 1..Len(form.calls) :
               /\ Len(form.calls[k]) \in 1..50
               /\ \A i \in 1..Len(form.calls[k]) :
                      TrimmedUrl(form.calls[k][i])
        /\ (NonBlankLines(form.urls) = 0 \/ NonBlankLines(form.urls) > 50) =>
               /\ form.calls = <<>>
               /\ form.error # ""
               /\ form.pc = "rejected"

\* A call with exactly 50 URLs, taken from an input of more than 50 lines
\* that carries whitespace.
C18_Witness ==
    /\ form.pc = "awaiting"
    /\ Len(form.calls) = 1
    /\ Len(form.calls[1]) = 50
    /\ Len(Split(form.urls)) > 50
    /\ \E i \in 1..Len(form.urls) : form.urls[i] \in Whitespace

(***************************************************************************)
(* The colour of a web-vital value.  The audit score is a fraction f of    *)
(* 0..1, here in thousandths.  A comparison of 100 * f, or of f, with a    *)
(* whole threshold depends on its whole part only, so the classifiers are  *)
(* applied to f \div 10 and to f \div 1000.                                *)
(***************************************************************************)
VitalFractions == {0, 1, 250, 499, 500, 501, 750, 899, 900, 901, 999, 1000}

\* exportService.js 363-398: the rows of the server PDF table, and
\* ResultCard.jsx 51-63: the vitals of the card
VitalIds ==
    {"largest-contentful-paint", "max-potential-fid",
     "cumulative-layout-shift", "first-contentful-paint", "interactive",
     "total-blocking-time", "speed-index"}

\* page.js 243-278: vitalsRow1 and vitalsRow2
ClientVitalIds == VitalIds \ {"speed-index"}

\* exportService.js 435-437: vital.score ? getColorForScore(vital.score *
\* 100) : "#000000"
server_VitalColour(f) ==
    IF f = 0 THEN "#000000" ELSE getColorForScore(f \div 10)

\* page.js 248-290: score: audits[id]?.score || 0, then
\* getScoreColor(vital.score)
client_VitalColour(f) ==
    LET score == IF f = 0 THEN 0 ELSE f
    IN  page_getScoreColor(score \div 1000)

\* ResultCard.jsx 66-72, part_002 63-69, for an audit that is present
getVitalClass(f) ==
    IF f >= 900 THEN "text-emerald-600"
    ELSE IF f >= 500 THEN "text-amber-500"
    ELSE "text-rose-500"

InitVital ==
    /\ BatchOff
    /\ results = <<>>
    /\ cls \in [pc : {"vital"}, audit : VitalIds, score : VitalFractions,
                server : {Absent}, client : {<<>>}, card : {Absent}]
    /\ csv = Off /\ cpdf = Off /\ spdf = Off /\ pdf3 = Off
    /\ LaterOff

\* exportService.js 416-441: one row of the table
VitalServerPdf ==
    /\ cls.pc = "vital"
    /\ cls.server = Absent
    /\ cls' = [cls EXCEPT !.server = server_VitalColour(cls.score)]
    /\ UNCHANGED notClsVars

\* page.js 284-300: one entry of drawVitalsRow
VitalClientPdf ==
    /\ cls.pc = "vital"
    /\ cls.audit \in ClientVitalIds
    /\ cls.client = <<>>
    /\ cls' = [cls EXCEPT !.client = client_VitalColour(cls.score)]
    /\ UNCHANGED notClsVars

\* ResultCard.jsx 121, part_002 120-144: one span of the card
VitalCard ==
    /\ cls.pc = "vital"
    /\ cls.card = Absent
    /\ cls' = [cls EXCEPT !.card = getVitalClass(cls.score)]
    /\ UNCHANGED notClsVars

NextVital == VitalServerPdf \/ VitalClientPdf \/ VitalCard

SpecVital == InitVital /\ [][NextVital]_vars

\* C21: at the result card, the server PDF table and the client PDF card, a
\* vital whose audit score is the fraction f of 0..1, 0 included, gets the
\* colour the classifier of that place gives the category score 100 * f.
C21_VitalBands ==
    cls.pc = "vital" =>
        /\ cls.server # Absent =>
               cls.server = getColorForScore(cls.score \div 10)
        /\ cls.client # <<>> =>
               cls.client = page_getScoreColor(cls.score \div 10)
        /\ cls.card # Absent =>
               cls.card = card_getScoreColor(cls.score \div 10)

(***************************************************************************)
(* The grouping of the detailed section (exportService.js 233-266), for    *)
(* records that share a url and for a url that names an inherited          *)
(* property.                                                               *)
(***************************************************************************)
MaxGroupRecords == 3

GroupPool ==
    { ErrorRecord("a.com", "Failed to fetch"),
      [ErrorRecord("a.com", "Failed to fetch") EXCEPT !.strategy = "desktop"],
      DataRecord("https://b.org", [c \in CategorySet |-> 895], TRUE,
                 FullAudits, Absent),
      ErrorRecord("constructor", "Failed to fetch") }

InitGrouping ==
    /\ BatchOff
    /\ results \in (SeqsUpTo(GroupPool, MaxGroupRecords) \ { <<>> })
    /\ spdf = NewServerPdf
    /\ cls = Off /\ csv = Off /\ cpdf = Off /\ pdf3 = Off
    /\ LaterOff

SpecGrouping == InitGrouping /\ [][NextServerPdf]_vars

\* addDetailedResults has run to its end or has thrown
DetailedOver ==
    \/ spdf.pc \in {"settled", "ended"} /\ spdf.thrownBy # "summary"
    \/ spdf.pc = "url" /\ spdf.g > Len(spdf.groups)

\* C22: the detailed section has exactly one sub-section per distinct url of
\* the input, every record has exactly one block, under the heading of its
\* own url, and the blocks of a url follow the input order, whatever the
\* url strings are.
C22_OneSectionPerUrl ==
    DetailedOver =>
        LET S == spdf.sections IN
        /\ \A i \in 1..Len(results) :
               \E k \in 1..Len(S) : S[k].url = results[i].url
        /\ \A k, l \in 1..Len(S) : S[k].url = S[l].url => k = l
        /\ \A i \in 1..Len(results) :
               Cardinality({kj \in {<<k, j>> : k \in 1..Len(S),
                                                   j \in 1..Len(results)} :
                               /\ kj[2] <= Len(S[kj[1]].blocks)
                               /\ S[kj[1]].blocks[kj[2]] = i}) = 1
        /\ \A k \in 1..Len(S) : \A j \in 1..Len(S[k].blocks) :
               /\ results[S[k].blocks[j]].url = S[k].url
               /\ j > 1 => S[k].blocks[j - 1] < S[k].blocks[j]

(***************************************************************************)
(* The message of an error record made from a non-2xx response.            *)
(***************************************************************************)
\* the body is JSON with a non-empty error.message
HasJsonMessage(body) == body.json = "object" /\ ~Falsy(body.message)

\* C23: for a non-2xx response the error of the record is the body's
\* error.message when the body is JSON with a non-empty error.message,
\* otherwise the body text when that is non-empty, otherwise "API request
\* failed"; it is never empty.
C23_ErrorMessage ==
    \A i \in 1..N :
        tasks[i].outcome = "non-2xx" =>
            LET body == tasks[i].body
                error == tasks[i].promise.value.error
            IN  /\ ~Falsy(error)
                /\ error = IF HasJsonMessage(body) THEN body.message
                           ELSE IF body.text # "" THEN body.text
                           ELSE "API request failed"

(***************************************************************************)
(* The url of a record, and the requests of a batch.                       *)
(***************************************************************************)
\* C25: every record runPageSpeedTests returns, success or error, carries as
\* url the scheme-prefixed address that was sent to the external API.
C25_RecordUrlIsSent ==
    batch.pc = "returned" =>
        \A i \in 1..N : batch.result[i].url = tasks[i].processedUrl

\* a request has been issued for task i
Requested(i) == tasks[i].pc # "idle"

\* the batch has reached the await of Promise.all, or is past it
AtAwait == batch.pc \in {"await", "returned", "threw"} \/ pall.status # "none"

\* C26: runPageSpeedTests issues exactly one request per entry of urls,
\* duplicates included and with no second request after a failure, and all
\* the requests are issued before the batch awaits any result.
C26_OneRequestEach ==
    /\ [](/\ batch.issued = Cardinality({i \in 1..N : Requested(i)})
          /\ AtAwait => (batch.issued = N /\ \A i \in 1..N : Requested(i)))
    /\ [][\A i \in 1..N :
             /\ tasks'[i].pc = "fetch" => tasks[i].pc \in {"idle", "fetch"}
             /\ tasks[i].pc = "done" => tasks'[i].pc = "done"]_vars

\* a batch with the same url twice has returned, one of the two requests
\* having failed
C26_Witness ==
    /\ batch.pc = "returned"
    /\ N >= 2
    /\ urls[1] = urls[2]
    /\ tasks[1].outcome \in Failures
    /\ tasks[2].outcome = "ok"
    /\ batch.issued = N

(***************************************************************************)
(* The page (page.js) with its one loading flag, shared by handleSubmit,   *)
(* handleExportCSV and handleExportPDF.  The submit button is disabled     *)
(* while loading (522); the export buttons are rendered while results is   *)
(* not empty (538) and are never disabled.  last is what the handler that  *)
(* finished last did: a download, a saved PDF or an alert.                 *)
(***************************************************************************)
MaxExports == 2

Exports == 1..MaxExports

InitPage ==
    /\ BatchOff
    /\ results = Off /\ cls = Off /\ csv = Off /\ cpdf = Off
    /\ spdf = Off /\ pdf3 = Off
    /\ stream = Off /\ route = Off /\ card = Off /\ view = Off
    /\ form = [pc |-> "page", loading |-> FALSE, error |-> "",
               results |-> "empty", batch |-> "idle",
               exports |-> [e \in Exports |-> "none"], last |-> "none"]

\* page.js 19-45 for a valid input: the button being enabled, setLoading(true)
\* and setResults([]), then the await of the batch
PageSubmit ==
    /\ form.pc = "page"
    /\ ~form.loading
    /\ form.batch = "idle"
    /\ form' = [form EXCEPT !.error = "", !.loading = TRUE,
                            !.results = "empty", !.batch = "in-flight"]
    /\ UNCHANGED notFormVars

\* page.js 45-51: the batch resolves or rejects, then finally
PageBatchSettles ==
    /\ form.pc = "page"
    /\ form.batch = "in-flight"
    /\ \E ok \in BOOLEAN :
         form' = [form EXCEPT
                    !.batch = "idle",
                    !.loading = FALSE,
                    !.results = IF ok THEN "shown" ELSE @,
                    !.error = IF ok THEN @ ELSE "Error running tests: message"]
    /\ UNCHANGED notFormVars

\* page.js 346-366: a click on Export CSV, up to the await of the fetch
handleExportCSV(e) ==
    /\ form.pc = "page"
    /\ form.results = "shown"
    /\ form.exports[e] = "none"
    /\ form' = [form EXCEPT !.loading = TRUE, !.exports[e] = "fetch"]
    /\ UNCHANGED notFormVars

\* page.js 355-399: the fetch settles; a rejection goes to catch and finally
ExportCsvResponse(e) ==
    /\ form.pc = "page"
    /\ form.exports[e] = "fetch"
    /\ \E answer \in {"ok", "not-ok", "rejected"} :
         form' = IF answer = "rejected"
                 THEN [form EXCEPT !.exports[e] = "none", !.loading = FALSE,
                                   !.last = "alert"]
                 ELSE [form EXCEPT !.exports[e] =
                                      IF answer = "ok" THEN "blob" ELSE "json"]
    /\ UNCHANGED notFormVars

\* page.js 370-399: the body has been read (blob(), or json() of an error
\* answer); the download or the alert, then finally
ExportCsvDone(e) ==
    /\ form.pc = "page"
    /\ form.exports[e] \in {"blob", "json"}
    /\ form' = [form EXCEPT !.exports[e] = "none", !.loading = FALSE,
                            !.last = IF form.exports[e] = "blob"
                                     THEN "download" ELSE "alert"]
    /\ UNCHANGED notFormVars

\* page.js 54-344: a click on Export PDF; the handler has no await, it sets
\* loading and resets it in finally
handleExportPDF ==
    /\ form.pc = "page"
    /\ form.results = "shown"
    /\ form' = [form EXCEPT !.loading = FALSE, !.last = "save"]
    /\ UNCHANGED notFormVars

NextPage ==
    \/ PageSubmit
    \/ PageBatchSettles
    \/ \E e \in Exports : handleExportCSV(e)
    \/ \E e \in Exports : ExportCsvResponse(e)
    \/ \E e \in Exports : ExportCsvDone(e)
    \/ handleExportPDF

SpecPage == InitPage /\ [][NextPage]_vars

InFlight ==
    \/ form.batch = "in-flight"
    \/ \E e \in Exports : form.exports[e] # "none"

\* C28: while a batch run or a CSV export started from the page is in
\* flight, loading is true, whatever the order of the clicks on submit,
\* Export CSV and Export PDF and of the completions.
C28_LoadingWhileInFlight ==
    form.pc = "page" => (InFlight => form.loading)

(***************************************************************************)
(* Further claims about handleSubmit.                                      *)
(***************************************************************************)
\* The event loop runs the continuation of handleSubmit once the batch has
\* settled.
SpecSubmitFair == SpecSubmit /\ WF_vars(TestsResolve \/ TestsReject)

\* C27: a submission of more than 27 URLs is rejected with the message
\* "Maximum 27 URLs allowed" and no test is run.
C27_CapIs27 ==
    (form.pc \notin {"off", "idle"} /\ NonBlankLines(form.urls) > 27) =>
        /\ form.pc = "rejected"
        /\ form.error = "Maximum 27 URLs allowed"
        /\ form.calls = <<>>

\* the run of a valid submission is over
RunOver ==
    /\ form.pc \in {"shown", "failed"}
    /\ ~form.loading
    /\ \/ /\ form.results.from = "run"
          /\ form.results.count = Len(form.calls[Len(form.calls)])
       \/ form.error # ""

\* C29: a handleSubmit that passes validation sets loading and empties
\* results; loading is eventually false again, whether the batch succeeds or
\* throws, and then results holds one record per submitted URL or the error
\* message is not empty.
C29_LoadingRestored ==
    /\ [](form.pc = "awaiting" => (form.loading /\ form.results.count = 0))
    /\ [](form.pc \in {"shown", "failed"} => RunOver)
    /\ (form.pc = "awaiting" ~> RunOver)

\* a run of 50 urls is over with its 50 records
C29_Witness ==
    /\ form.pc = "shown"
    /\ ~form.loading
    /\ form.results = [from |-> "run", count |-> 50]

\* C30: when handleSubmit rejects its input it leaves results and loading as
\* they were and makes no call; only the error message changes.
C30_RejectionFrame ==
    [][(form.pc = "idle" /\ form'.pc = "rejected") =>
            /\ form'.results = form.results
            /\ form'.loading = form.loading
            /\ form'.calls = form.calls
            /\ form'.urls = form.urls
            /\ form'.error # ""]_vars

\* more than 50 urls have been rejected while earlier results are shown
C30_Witness ==
    /\ form.pc = "rejected"
    /\ form.results.from = "earlier"
    /\ form.error = "Maximum 27 URLs allowed"
    /\ form.calls = <<>>

(***************************************************************************)
(* The counts of the PDF summary.                                          *)
(***************************************************************************)
\* C24: the PDF summary gives as the number of URLs tested the count of
\* distinct url values of the records and as the number of tests run the
\* count of records, so that a url given twice raises the second only.
C24_SummaryCounts ==
    LET distinct == Cardinality({results[i].url : i \in 1..Len(results)}) IN
    /\ (view.pc = "done" /\ view.op = "summary") =>
           view.out.counts = <<distinct, Len(results)>>
    /\ (view.pc = "done" /\ view.op = "summary3") =>
           view.out.counts[1] = distinct

(***************************************************************************)
(* The whole program: any one of the operations, from its start.           *)
(***************************************************************************)
Init ==
    \/ InitBatch
    \/ InitClassify
    \/ InitCsv
    \/ InitClientPdf
    \/ InitServerPdf
    \/ InitPart3Pdf
    \/ InitPdfPromise
    \/ InitRoute
    \/ InitNormalize
    \/ InitConsumers
    \/ InitSubmit
    \/ InitVital
    \/ InitGrouping
    \/ InitPage

Next ==
    \/ NextBatch
    \/ NextClassify
    \/ NextCsv
    \/ NextClientPdf
    \/ NextServerPdf
    \/ NextPart3Pdf
    \/ NextPdfPromise
    \/ NextRoute
    \/ NextConsumers
    \/ NextSubmit
    \/ NextVital
    \/ NextPage

Spec == Init /\ [][Next]_vars

=============================================================================
